---- MODULE Spec2Model ----
(***************************************************************************)
(* Model of the code-clone detection engine of homecheck-extrule:          *)
(* djb2Hash, the sliding window generator, the HashIndex, the CloneMatcher,*)
(* the CloneMerger, the fragment-level checker and the method-level base   *)
(* checker.                                                                *)
(*                                                                         *)
(* Strings are sequences of UTF-16 char codes (naturals); file paths are   *)
(* TLA+ strings.  A JavaScript number that the code keeps as an int32 is   *)
(* a record [hi, lo] of its two 16-bit halves (two's complement), because  *)
(* the arithmetic of djb2Hash has to wrap at 32 bits.                      *)
(***************************************************************************)
EXTENDS Integers, Sequences, FiniteSets, TLC

VARIABLES
    \* ---- djb2Hash applied to one string (pure function harness)
    hashIn,        \* the string handed to djb2Hash
    hashOut,       \* result of HashIndex.ts djb2Hash
    hashOutUtils,  \* result of utils.ts djb2Hash
    hashDone,      \* the two results have been computed
    \* ---- createSlidingWindows / getWindowCount (pure function harness)
    winTokens,     \* the token sequence
    winSize,       \* the window size
    winOut,        \* result of createSlidingWindows
    winCount,      \* result of getWindowCount
    winThrew,      \* createSlidingWindows threw instead of returning
    winDone,       \* the two results have been computed
    \* ---- a HashIndex driven directly
    index,         \* HashIndex.index: Map in insertion order, a sequence of [hash, locations]
    addLog,        \* ghost: the <<hash, location>> added since the last clear, in order
    cleared,       \* ghost: clear() has been called
    \* ---- mergeClonePairs, one loop iteration per step
    mPairs,        \* the argument pairs
    mWindow,       \* the argument windowSize
    mSorted,       \* local sorted
    mI,            \* loop variable i
    mCurrent,      \* local current (NoResult before the loop)
    mMerged,       \* local merged
    mPc,           \* "start" | "loop" | "done"
    mPrev,         \* ghost: tokenCount of current before the last extension (0 when none)
    \* ---- one CodeCloneFragmentCheck instance and its host
    registered,    \* host: the checker the project's rule configuration enables
    rule,          \* this.rule, set by the host: [alert, hasOption, option]
    cloneMatcher,  \* this.cloneMatcher: [hashIndex, windowSize]
    cloneMerger,   \* this.cloneMerger: [windowSize]
    tokenizer,     \* this.tokenizer: its options
    fileCache,     \* this.fileCache: Map filePath -> ArkFile, a sequence of [key, value]
    issues,        \* this.issues
    phase,         \* host protocol: "constructed" | "collecting" | "done"
    clonePairs,    \* afterCheck's clonePairs, kept after it returns
    mergedClones,  \* afterCheck's mergedClones, kept after it returns
    delivered,     \* ghost: the files handed to collectTokens in this run, in order
    hadRun,        \* ghost: an earlier run on this instance has reported an issue
    \* ---- one CodeCloneType1Check instance (CodeCloneBaseCheck)
    methodRule,       \* this.rule
    methodsByHash,    \* this.methodsByHash: Map hash -> MethodInfo[]
    reportedPairs,    \* this.reportedPairs
    methodIssues,     \* this.issues
    methodPhase,      \* host protocol: "constructed" | "collecting" | "done"
    methodDelivered,  \* ghost: the files handed to collectMethods in this run, in order
    methodHadRun,     \* ghost: an earlier run on this instance has reported an issue
    \* ---- one call of a function of the checkers on its own
    callArgs,         \* the arguments of the call
    callResult,       \* what the call returned
    callDone          \* the call has returned

NoResult == "none"

(***************************************************************************)
(* Characters                                                              *)
(***************************************************************************)
CharA == 97
CharB == 98
CharC == 99
CharD == 100
CharE == 101
CharBar == 124
CharMinus == 45

(***************************************************************************)
(* int32 arithmetic on 16-bit halves                                       *)
(***************************************************************************)
Half == 2 ^ 16

Int32Zero == [hi |-> 0, lo |-> 0]

\* hash << 5  (ToInt32 of the left shift)
ShiftLeft5(h) ==
    LET lo32 == h.lo * 32
    IN  [hi |-> (h.hi * 32 + (lo32 \div Half)) % Half, lo |-> lo32 % Half]

\* a - b, wrapped to 32 bits
Sub32(a, b) ==
    LET borrow == IF a.lo < b.lo THEN 1 ELSE 0
    IN  [hi |-> (a.hi + 2 * Half - b.hi - borrow) % Half,
         lo |-> (a.lo + Half - b.lo) % Half]

\* a + b, wrapped to 32 bits
Add32(a, b) ==
    LET lo32 == a.lo + b.lo
    IN  [hi |-> (a.hi + b.hi + (lo32 \div Half)) % Half, lo |-> lo32 % Half]

\* a char code (0..65535) as an int32
CharCode32(c) == [hi |-> 0, lo |-> c]

\* the wrong step of the classic djb2: (hash << 5) + hash + char
HashStepPlus(h, c) == Add32(Add32(ShiftLeft5(h), h), CharCode32(c))

\* hash = ((hash << 5) - hash) + char; hash = hash & hash
\* The subtraction and the addition are exact in a double, and hash & hash
\* is ToInt32, so the step is the sum wrapped to 32 bits.
HashStep(h, c) == Add32(Sub32(ShiftLeft5(h), h), CharCode32(c))

\* an int32 as this module keeps it: two unsigned 16-bit halves
IsInt32(h) == h.hi \in 0..(Half - 1) /\ h.lo \in 0..(Half - 1)

\* the for loop over the characters of str, left to right; the value that enters an
\* iteration is an int32, which the first test reads before the step is taken
RECURSIVE HashLoop(_, _)
HashLoop(h, str) ==
    IF ~IsInt32(h) \/ str = <<>> THEN h
    ELSE HashLoop(HashStep(h, Head(str)), Tail(str))

IsNegative32(h) == h.hi >= Half \div 2

\* |h| of a negative int32 h, as an unsigned 32-bit value (2^31 for the minimum)
Negate32(h) == Sub32(Int32Zero, h)

HexDigit(d) == IF d < 10 THEN 48 + d ELSE 87 + d

\* the hexadecimal digits of an unsigned 16-bit half, most significant first
HexDigits16(x) ==
    << HexDigit(x \div 4096), HexDigit((x \div 256) % 16),
       HexDigit((x \div 16) % 16), HexDigit(x % 16) >>

RECURSIVE StripLeadingZeros(_)
StripLeadingZeros(ds) ==
    IF Len(ds) > 1 /\ Head(ds) = 48 THEN StripLeadingZeros(Tail(ds)) ELSE ds

\* Number.prototype.toString(16) of an int32: sign, then the magnitude's digits
ToString16(h) ==
    LET mag == IF IsNegative32(h) THEN Negate32(h) ELSE h
        ds  == StripLeadingZeros(HexDigits16(mag.hi) \o HexDigits16(mag.lo))
    IN  IF IsNegative32(h) THEN <<CharMinus>> \o ds ELSE ds

\* HashIndex.ts djb2Hash
djb2Hash(str) == ToString16(HashLoop(Int32Zero, str))

\* utils.ts djb2Hash
djb2HashUtils(str) == ToString16(HashLoop(Int32Zero, str))

(***************************************************************************)
(* Tokens and the sliding window generator                                 *)
(***************************************************************************)
\* createToken: a Token {value, type, line, column, file}
createToken(value, type, line, column, file) ==
    [value |-> value, type |-> type, line |-> line, column |-> column, file |-> file]

\* tokens.slice(i, i + windowSize), i 0-based and at most tokens.length: a negative
\* end counts from the end of the array, an end past the array stops at its end
Slice(tokens, i, windowSize) ==
    LET end  == i + windowSize
        last == IF end < 0 THEN (IF Len(tokens) + end < 0 THEN 0 ELSE Len(tokens) + end)
                ELSE IF end > Len(tokens) THEN Len(tokens) ELSE end
    IN  SubSeq(tokens, i + 1, last)

\* the body of the for loop of createSlidingWindows: the window starting at i
WindowAt(tokens, i, windowSize) ==
    LET windowTokens == Slice(tokens, i, windowSize)
        firstToken   == windowTokens[1]
        lastToken    == windowTokens[Len(windowTokens)]
    IN  [startIndex |-> i,
         tokens     |-> windowTokens,
         startLine  |-> firstToken.line,
         endLine    |-> lastToken.line,
         file       |-> firstToken.file]

\* firstToken.line with firstToken undefined (a TypeError): the loop is entered
\* and the slice of one of its iterations is empty
createSlidingWindowsThrows(tokens, windowSize) ==
    /\ Len(tokens) >= windowSize
    /\ \E i \in 0..(Len(tokens) - windowSize) : Slice(tokens, i, windowSize) = <<>>

\* the loop bound written i < tokens.length - windowSize
createSlidingWindowsShort(tokens, windowSize) ==
    IF Len(tokens) < windowSize THEN <<>>
    ELSE [k \in 1..(Len(tokens) - windowSize) |-> WindowAt(tokens, k - 1, windowSize)]

\* createSlidingWindows: for (i = 0; i <= tokens.length - windowSize; i++)
createSlidingWindows(tokens, windowSize) ==
    IF Len(tokens) < windowSize THEN <<>>
    ELSE [k \in 1..(Len(tokens) - windowSize + 1) |-> WindowAt(tokens, k - 1, windowSize)]

getWindowCount(tokenCount, windowSize) ==
    IF tokenCount < windowSize THEN 0 ELSE tokenCount - windowSize + 1

(***************************************************************************)
(* HashIndex                                                               *)
(***************************************************************************)
\* first position of hash among the keys of the Map, 0 when absent
RECURSIVE KeyPos(_, _, _)
KeyPos(idx, hash, k) ==
    IF k > Len(idx) THEN 0
    ELSE IF idx[k].hash = hash THEN k ELSE KeyPos(idx, hash, k + 1)

\* existing.push(location) written as a replacement of the bucket
HashIndex_addOverwrite(idx, hash, location) ==
    LET k == KeyPos(idx, hash, 1)
    IN  IF k # 0
        THEN [idx EXCEPT ![k].locations = <<location>>]
        ELSE Append(idx, [hash |-> hash, locations |-> <<location>>])

HashIndex_add(idx, hash, location) ==
    LET k == KeyPos(idx, hash, 1)
    IN  IF k # 0
        THEN [idx EXCEPT ![k].locations = Append(@, location)]
        ELSE Append(idx, [hash |-> hash, locations |-> <<location>>])

HashIndex_get(idx, hash) ==
    LET k == KeyPos(idx, hash, 1)
    IN  IF k # 0 THEN idx[k].locations ELSE <<>>

\* for (const [hash, locations] of this.index) if (locations.length >= 2) push
HashIndex_getDuplicates(idx) ==
    SelectSeq(idx, LAMBDA e : Len(e.locations) >= 2)

HashIndex_size(idx) == Len(idx)

HashIndex_clear(idx) == <<>>

\* array.join(sep) of a sequence of strings
RECURSIVE Join(_, _)
Join(strs, sep) ==
    IF strs = <<>> THEN <<>>
    ELSE IF Len(strs) = 1 THEN strs[1]
    ELSE strs[1] \o sep \o Join(Tail(strs), sep)

\* a hash that also reads the token's line
computeWindowHashWithLine(window) ==
    djb2Hash(Join([k \in 1..Len(window.tokens) |->
                      window.tokens[k].value \o <<48 + window.tokens[k].line>>],
                  <<CharBar>>))

\* window.tokens.map(t => t.value).join('|')
computeWindowHash(window) ==
    djb2Hash(Join([k \in 1..Len(window.tokens) |-> window.tokens[k].value], <<CharBar>>))

\* file: window.file || defaultFile  (undefined and '' are falsy)
createLocationFromWindow(window, defaultFile) ==
    [file       |-> IF window.file \in {"undefined", ""} THEN defaultFile ELSE window.file,
     startIndex |-> window.startIndex,
     startLine  |-> window.startLine,
     endLine    |-> window.endLine]

(***************************************************************************)
(* CloneMatcher                                                            *)
(***************************************************************************)
\* the for loop of processFile over the windows, in order
RECURSIVE AddWindows(_, _, _, _)
AddWindows(idx, windows, k, file) ==
    IF k > Len(windows) THEN idx
    ELSE AddWindows(HashIndex_add(idx, computeWindowHash(windows[k]),
                                  createLocationFromWindow(windows[k], file)),
                    windows, k + 1, file)

\* CloneMatcher.processFile; a matcher is [hashIndex, windowSize]
CloneMatcher_processFile(matcher, tokens, file) ==
    [matcher EXCEPT !.hashIndex =
        AddWindows(@, createSlidingWindows(tokens, matcher.windowSize), 1, file)]

CloneMatcher_getMatches(matcher) == HashIndex_getDuplicates(matcher.hashIndex)

\* the two nested loops over one match: i < j, i outer, j inner
RECURSIVE PairsOfMatch(_, _, _, _)
PairsOfMatch(locations, i, j, windowSize) ==
    IF i > Len(locations) THEN <<>>
    ELSE IF j > Len(locations) THEN PairsOfMatch(locations, i + 1, i + 2, windowSize)
    ELSE <<[location1 |-> locations[i], location2 |-> locations[j],
            tokenCount |-> windowSize]>>
         \o PairsOfMatch(locations, i, j + 1, windowSize)

RECURSIVE PairsOfMatches(_, _, _)
PairsOfMatches(matches, k, windowSize) ==
    IF k > Len(matches) THEN <<>>
    ELSE PairsOfMatch(matches[k].locations, 1, 2, windowSize)
         \o PairsOfMatches(matches, k + 1, windowSize)

\* the inner loop started at j = i: a location is also paired with itself
RECURSIVE PairsOfMatchSelf(_, _, _, _)
PairsOfMatchSelf(locations, i, j, windowSize) ==
    IF i > Len(locations) THEN <<>>
    ELSE IF j > Len(locations) THEN PairsOfMatchSelf(locations, i + 1, i + 1, windowSize)
    ELSE <<[location1 |-> locations[i], location2 |-> locations[j],
            tokenCount |-> windowSize]>>
         \o PairsOfMatchSelf(locations, i, j + 1, windowSize)

RECURSIVE PairsOfMatchesSelf(_, _, _)
PairsOfMatchesSelf(matches, k, windowSize) ==
    IF k > Len(matches) THEN <<>>
    ELSE PairsOfMatchSelf(matches[k].locations, 1, 1, windowSize)
         \o PairsOfMatchesSelf(matches, k + 1, windowSize)

CloneMatcher_getClonePairsSelf(matcher) ==
    PairsOfMatchesSelf(CloneMatcher_getMatches(matcher), 1, matcher.windowSize)

CloneMatcher_getClonePairs(matcher) ==
    PairsOfMatches(CloneMatcher_getMatches(matcher), 1, matcher.windowSize)

(***************************************************************************)
(* CloneMerger                                                             *)
(***************************************************************************)
isConsecutive(pair1, pair2) ==
    LET sameFiles == /\ pair1.location1.file = pair2.location1.file
                     /\ pair1.location2.file = pair2.location2.file
    IN  IF ~sameFiles THEN FALSE
        ELSE /\ pair2.location1.startIndex = pair1.location1.startIndex + 1
             /\ pair2.location2.startIndex = pair1.location2.startIndex + 1

createMergedClone(pair, windowSize) ==
    [location1 |-> [file       |-> pair.location1.file,
                    startLine  |-> pair.location1.startLine,
                    endLine    |-> pair.location1.endLine,
                    startIndex |-> pair.location1.startIndex,
                    endIndex   |-> pair.location1.startIndex + windowSize - 1],
     location2 |-> [file       |-> pair.location2.file,
                    startLine  |-> pair.location2.startLine,
                    endLine    |-> pair.location2.endLine,
                    startIndex |-> pair.location2.startIndex,
                    endIndex   |-> pair.location2.startIndex + windowSize - 1],
     tokenCount |-> windowSize]

Max(a, b) == IF a >= b THEN a ELSE b

\* an extension that leaves location2.endIndex as it was
extendMergedCloneStale(merged, pair) ==
    LET tc == merged.tokenCount + 1
    IN  [merged EXCEPT
            !.tokenCount = tc,
            !.location1.endIndex = merged.location1.startIndex + tc - 1,
            !.location1.endLine = Max(merged.location1.endLine, pair.location1.endLine),
            !.location2.endLine = Max(merged.location2.endLine, pair.location2.endLine)]

extendMergedClone(merged, pair) ==
    LET tc == merged.tokenCount + 1
    IN  [merged EXCEPT
            !.tokenCount = tc,
            !.location1.endIndex = merged.location1.startIndex + tc - 1,
            !.location2.endIndex = merged.location2.startIndex + tc - 1,
            !.location1.endLine = Max(merged.location1.endLine, pair.location1.endLine),
            !.location2.endLine = Max(merged.location2.endLine, pair.location2.endLine)]

\* the file paths of the model, in localeCompare order
FileNames == <<"a.ets", "b.ets">>

FileRank(f) == CHOOSE k \in 1..Len(FileNames) : FileNames[k] = f

\* String.prototype.localeCompare on the model's file paths: negative, 0, positive
localeCompare(f, g) == FileRank(f) - FileRank(g)

\* a comparator that stops at the file names
compareClonePairsFilesOnly(a, b) ==
    IF a.location1.file # b.location1.file
    THEN localeCompare(a.location1.file, b.location1.file)
    ELSE IF a.location2.file # b.location2.file
    THEN localeCompare(a.location2.file, b.location2.file)
    ELSE 0

compareClonePairs(a, b) ==
    IF a.location1.file # b.location1.file
    THEN localeCompare(a.location1.file, b.location1.file)
    ELSE IF a.location2.file # b.location2.file
    THEN localeCompare(a.location2.file, b.location2.file)
    ELSE IF a.location1.startIndex # b.location1.startIndex
    THEN a.location1.startIndex - b.location1.startIndex
    ELSE a.location2.startIndex - b.location2.startIndex

\* x put into the sorted sequence s after every element that is not greater
RECURSIVE InsertSorted(_, _)
InsertSorted(s, x) ==
    IF s = <<>> THEN <<x>>
    ELSE IF compareClonePairs(x, Head(s)) < 0 THEN <<x>> \o s
    ELSE <<Head(s)>> \o InsertSorted(Tail(s), x)

\* [...pairs].sort(compareClonePairs): Array.prototype.sort is stable
RECURSIVE SortPairs(_)
SortPairs(pairs) ==
    IF pairs = <<>> THEN <<>>
    ELSE InsertSorted(SortPairs(SubSeq(pairs, 1, Len(pairs) - 1)), pairs[Len(pairs)])

\* the for loop of mergeClonePairs from index i (1-based; sorted[i-1] is the previous pair)
RECURSIVE MergeLoop(_, _, _, _, _)
MergeLoop(sorted, i, current, merged, windowSize) ==
    IF i > Len(sorted) THEN Append(merged, current)
    ELSE IF isConsecutive(sorted[i - 1], sorted[i])
    THEN MergeLoop(sorted, i + 1, extendMergedClone(current, sorted[i]), merged, windowSize)
    ELSE MergeLoop(sorted, i + 1, createMergedClone(sorted[i], windowSize),
                   Append(merged, current), windowSize)

mergeClonePairs(pairs, windowSize) ==
    IF Len(pairs) = 0 THEN <<>>
    ELSE LET sorted == SortPairs(pairs)
         IN  MergeLoop(sorted, 2, createMergedClone(sorted[1], windowSize), <<>>, windowSize)

\* CloneMerger.merge; a merger is [windowSize]
CloneMerger_merge(merger, pairs) == mergeClonePairs(pairs, merger.windowSize)

(***************************************************************************)
(* Tokenizer                                                               *)
(*                                                                         *)
(* The scanner (ts.createScanner) is the host's: a source is its text and   *)
(* the lexemes [text, kind, pos] the scanner yields for it, trivia skipped.*)
(***************************************************************************)
LiteralKinds ==
    {"NumericLiteral", "BigIntLiteral", "StringLiteral", "NoSubstitutionTemplateLiteral",
     "TemplateHead", "TemplateMiddle", "TemplateTail", "RegularExpressionLiteral",
     "TrueKeyword", "FalseKeyword", "NullKeyword"}

\* kinds of the range BreakKeyword .. OfKeyword that the model's sources use
KeywordKinds ==
    {"BreakKeyword", "ConstKeyword", "ElseKeyword", "ForKeyword", "FunctionKeyword",
     "IfKeyword", "ReturnKeyword", "VarKeyword", "WhileKeyword", "LetKeyword", "OfKeyword"}

OperatorKinds ==
    {"PlusToken", "MinusToken", "AsteriskToken", "SlashToken", "PercentToken",
     "AsteriskAsteriskToken", "PlusPlusToken", "MinusMinusToken", "LessThanToken",
     "LessThanEqualsToken", "GreaterThanToken", "GreaterThanEqualsToken",
     "EqualsEqualsToken", "EqualsEqualsEqualsToken", "ExclamationEqualsToken",
     "ExclamationEqualsEqualsToken", "EqualsToken", "PlusEqualsToken", "MinusEqualsToken",
     "AsteriskEqualsToken", "SlashEqualsToken", "PercentEqualsToken", "AmpersandToken",
     "AmpersandAmpersandToken", "BarToken", "BarBarToken", "CaretToken", "TildeToken",
     "ExclamationToken", "QuestionToken", "QuestionQuestionToken", "QuestionDotToken",
     "DotToken", "DotDotDotToken", "EqualsGreaterThanToken"}

PunctuationKinds ==
    {"OpenParenToken", "CloseParenToken", "OpenBraceToken", "CloseBraceToken",
     "OpenBracketToken", "CloseBracketToken", "SemicolonToken", "ColonToken", "CommaToken"}

isOperatorKind(kind) == kind \in OperatorKinds

isPunctuationKind(kind) == kind \in PunctuationKinds

mapSyntaxKindToTokenType(kind) ==
    IF kind \in LiteralKinds THEN "LITERAL"
    ELSE IF kind \in KeywordKinds THEN "KEYWORD"
    ELSE IF kind = "StructKeyword" THEN "KEYWORD"
    ELSE IF kind = "Identifier" THEN "IDENTIFIER"
    ELSE IF kind = "AtToken" THEN "DECORATOR"
    ELSE IF isOperatorKind(kind) THEN "OPERATOR"
    ELSE IF isPunctuationKind(kind) THEN "PUNCTUATION"
    ELSE IF kind \in {"SingleLineCommentTrivia", "MultiLineCommentTrivia"} THEN "COMMENT"
    ELSE "UNKNOWN"

\* the decimal digits of a natural number, as a string
RECURSIVE Decimal(_)
Decimal(n) == IF n < 10 THEN <<48 + n>> ELSE Decimal(n \div 10) \o <<48 + (n % 10)>>

\* "ID_", "NUM", "STR", "BOOL", "NULL", "REGEX"
StrID_   == <<73, 68, 95>>
StrNUM   == <<78, 85, 77>>
StrSTR   == <<83, 84, 82>>
StrBOOL  == <<66, 79, 79, 76>>
StrNULL  == <<78, 85, 76, 76>>
StrREGEX == <<82, 69, 71, 69, 88>>

\* Map.get on a Map kept as a sequence of [key, value]; 0 when the key is absent
RECURSIVE MapPos(_, _, _)
MapPos(map, key, k) ==
    IF k > Len(map) THEN 0
    ELSE IF map[k].key = key THEN k ELSE MapPos(map, key, k + 1)

\* Map.set: the value of an existing key is replaced in place, a new key goes last
MapSet(map, key, value) ==
    LET k == MapPos(map, key, 1)
    IN  IF k # 0 THEN [map EXCEPT ![k].value = value]
        ELSE Append(map, [key |-> key, value |-> value])

\* a normalizeIdentifier that replaces the identifiers of length 1 as well
normalizeIdentifierEvery(st, value) ==
    IF MapPos(st.map, value, 1) # 0
    THEN [st |-> st, value |-> st.map[MapPos(st.map, value, 1)].value]
    ELSE [st    |-> [map |-> MapSet(st.map, value, StrID_ \o Decimal(st.counter)),
                     counter |-> st.counter + 1],
          value |-> StrID_ \o Decimal(st.counter)]

\* Tokenizer.normalizeIdentifier on the state st = [map, counter]: the new state
\* and the returned value
normalizeIdentifier(st, value) ==
    IF Len(value) <= 1 THEN [st |-> st, value |-> value]
    ELSE IF MapPos(st.map, value, 1) # 0
    THEN [st |-> st, value |-> st.map[MapPos(st.map, value, 1)].value]
    ELSE LET normalizedId == StrID_ \o Decimal(st.counter)
         IN  [st    |-> [map |-> MapSet(st.map, value, normalizedId),
                         counter |-> st.counter + 1],
              value |-> normalizedId]

normalizeLiteral(value, kind) ==
    IF kind \in {"NumericLiteral", "BigIntLiteral"} THEN StrNUM
    ELSE IF kind \in {"StringLiteral", "NoSubstitutionTemplateLiteral", "TemplateHead",
                      "TemplateMiddle", "TemplateTail"} THEN StrSTR
    ELSE IF kind \in {"TrueKeyword", "FalseKeyword"} THEN StrBOOL
    ELSE IF kind = "NullKeyword" THEN StrNULL
    ELSE IF kind = "RegularExpressionLiteral" THEN StrREGEX
    ELSE value

\* Tokenizer.normalizeToken: the new identifier state and the token value
normalizeToken(options, st, value, type, kind) ==
    IF options.normalizeIdentifiers /\ type = "IDENTIFIER"
    THEN normalizeIdentifier(st, value)
    ELSE IF options.normalizeLiterals /\ type = "LITERAL"
    THEN [st |-> st, value |-> normalizeLiteral(value, kind)]
    ELSE [st |-> st, value |-> value]

\* the for loop of offsetToLineColumn from i on; offsets are 0-based
RECURSIVE CountLines(_, _, _, _, _)
CountLines(text, offset, i, line, lastNewlinePos) ==
    IF ~(i < offset /\ i < Len(text))
    THEN [line |-> line, column |-> offset - lastNewlinePos - 1]
    ELSE IF text[i + 1] = 10 THEN CountLines(text, offset, i + 1, line + 1, i)
    ELSE CountLines(text, offset, i + 1, line, lastNewlinePos)

offsetToLineColumn(text, offset) == CountLines(text, offset, 0, 1, -1)

\* the while loop of tokenize from lexeme k on; a lexeme is what the scanner gives
\* for one scan(): [text, kind, pos].  st is identifierMap and identifierCounter; the
\* result is the tokens and the st the loop leaves in the instance
RECURSIVE TokenizeLoop(_, _, _, _, _, _, _)
TokenizeLoop(options, sourceCode, lexemes, k, st, tokens, filePath) ==
    IF k > Len(lexemes) THEN [tokens |-> tokens, st |-> st]
    ELSE LET lx        == lexemes[k]
             tokenType == mapSyntaxKindToTokenType(lx.kind)
         IN  IF options.skipComments /\ tokenType = "COMMENT"
             THEN TokenizeLoop(options, sourceCode, lexemes, k + 1, st, tokens, filePath)
             ELSE IF tokenType = "UNKNOWN"
             THEN TokenizeLoop(options, sourceCode, lexemes, k + 1, st, tokens, filePath)
             ELSE LET n  == normalizeToken(options, st, lx.text, tokenType, lx.kind)
                      lc == offsetToLineColumn(sourceCode, lx.pos)
                  IN  TokenizeLoop(options, sourceCode, lexemes, k + 1, n.st,
                                   Append(tokens, createToken(n.value, tokenType, lc.line,
                                                              lc.column, filePath)),
                                   filePath)

\* a tokenize that goes on with the identifierMap and identifierCounter of the instance
Tokenizer_tokenizeKeepingMap(instance, options, source, filePath) ==
    TokenizeLoop(options, source.text, source.lexemes, 1, instance, <<>>, filePath)

\* Tokenizer.tokenize on an instance whose identifierMap and identifierCounter are
\* instance: both are reset first; the result is the tokens and the instance's new
\* map and counter.  A source is its text and the lexemes the scanner finds in it
Tokenizer_tokenizeOn(instance, options, source, filePath) ==
    TokenizeLoop(options, source.text, source.lexemes, 1,
                 [map |-> <<>>, counter |-> 0], <<>>, filePath)

\* the tokens of Tokenizer.tokenize, whatever the instance held before
Tokenizer_tokenize(options, source, filePath) ==
    Tokenizer_tokenizeOn([map |-> <<>>, counter |-> 0], options, source, filePath).tokens

\* new Tokenizer(options): { ...DEFAULT_OPTIONS, ...options }
NewTokenizer(normalizeIdentifiers, normalizeLiterals) ==
    [skipComments |-> TRUE,
     normalizeIdentifiers |-> normalizeIdentifiers,
     normalizeLiterals |-> normalizeLiterals]

\* new CloneMatcher(windowSize)
NewCloneMatcher(windowSize) == [hashIndex |-> <<>>, windowSize |-> windowSize]

\* new CloneMerger(windowSize)
NewCloneMerger(windowSize) == [windowSize |-> windowSize]

(***************************************************************************)
(* CodeCloneFragmentCheck                                                  *)
(*                                                                         *)
(* A configured value is [kind, val] with kind the typeof of the value, or *)
(* "undefined" when the key is absent.  An optional string that is         *)
(* undefined is the string Undefined.                                      *)
(***************************************************************************)
DEFAULT_MINIMUM_TOKENS == 100
DEFAULT_NORMALIZE_IDENTIFIERS == TRUE
DEFAULT_NORMALIZE_LITERALS == FALSE
MetaDataSeverity == 2

Undefined == <<-1>>

\* this.rule && this.rule.option && this.rule.option.length > 0
HasFirstOption(r) == r.hasOption

getMinimumTokens(r) ==
    IF HasFirstOption(r) /\ r.option.minimumTokens.kind = "number"
    THEN r.option.minimumTokens.val
    ELSE DEFAULT_MINIMUM_TOKENS

getNormalizeIdentifiers(r) ==
    IF HasFirstOption(r) /\ r.option.normalizeIdentifiers.kind = "boolean"
    THEN r.option.normalizeIdentifiers.val
    ELSE DEFAULT_NORMALIZE_IDENTIFIERS

getNormalizeLiterals(r) ==
    IF HasFirstOption(r) /\ r.option.normalizeLiterals.kind = "boolean"
    THEN r.option.normalizeLiterals.val
    ELSE DEFAULT_NORMALIZE_LITERALS

startsWithPercent(name) == Len(name) >= 1 /\ name[1] = 37

ConstructorName == <<99, 111, 110, 115, 116, 114, 117, 99, 116, 111, 114>>

\* the for loop of getMethodEndLine; a method is [name, line, hasBody, stmts] and a
\* statement [text, line]
RECURSIVE MaxLine(_, _, _)
MaxLine(stmts, k, maxLine) ==
    IF k > Len(stmts) THEN maxLine
    ELSE MaxLine(stmts, k + 1, IF stmts[k].line > maxLine THEN stmts[k].line ELSE maxLine)

\* CodeCloneFragmentCheck.getMethodEndLine
Fragment_getMethodEndLine(method) ==
    IF ~method.hasBody THEN method.line ELSE MaxLine(method.stmts, 1, method.line)

\* the two nested loops of resolveCodeLocation from class c, method m on
RECURSIVE ResolveLoop(_, _, _, _)
ResolveLoop(classes, c, m, location) ==
    IF c > Len(classes) THEN location
    ELSE IF startsWithPercent(classes[c].name) THEN ResolveLoop(classes, c + 1, 1, location)
    ELSE IF m > Len(classes[c].methods) THEN ResolveLoop(classes, c + 1, 1, location)
    ELSE LET method == classes[c].methods[m]
         IN  IF startsWithPercent(method.name) \/ method.name = ConstructorName
             THEN ResolveLoop(classes, c, m + 1, location)
             ELSE IF /\ location.startLine >= method.line
                     /\ location.endLine <= Fragment_getMethodEndLine(method)
             THEN [location EXCEPT !.className = classes[c].name,
                                   !.methodName = method.name]
             ELSE ResolveLoop(classes, c, m + 1, location)

resolveCodeLocation(cache, file, startLine, endLine) ==
    LET location == [file |-> file, startLine |-> startLine, endLine |-> endLine,
                     className |-> Undefined, methodName |-> Undefined]
        k        == MapPos(cache, file, 1)
    IN  IF k = 0 THEN location
        ELSE ResolveLoop(cache[k].value.classes, 1, 1, location)

\* determineScope with the method name never compared
determineScopeNoMethod(loc1, loc2) ==
    IF loc1.file = loc2.file /\ loc1.className = loc2.className
       /\ loc1.className # Undefined
    THEN "SAME_CLASS"
    ELSE "DIFFERENT_CLASS"

determineScope(loc1, loc2) ==
    IF /\ loc1.file = loc2.file
       /\ loc1.className = loc2.className
       /\ loc1.methodName = loc2.methodName
       /\ loc1.methodName # Undefined
    THEN "SAME_METHOD"
    ELSE IF /\ loc1.file = loc2.file
            /\ loc1.className = loc2.className
            /\ loc1.className # Undefined
    THEN "SAME_CLASS"
    ELSE "DIFFERENT_CLASS"

\* a determineCloneType that looks at normalizeIdentifiers only
determineCloneTypeIdentifiersOnly(r) ==
    IF ~getNormalizeIdentifiers(r) THEN "Type-1" ELSE "Type-2"

determineCloneType(r) ==
    IF ~getNormalizeIdentifiers(r) /\ ~getNormalizeLiterals(r) THEN "Type-1" ELSE "Type-2"

createCloneReport(r, cache, clone) ==
    LET codeLocation1 == resolveCodeLocation(cache, clone.location1.file,
                             clone.location1.startLine, clone.location1.endLine)
        codeLocation2 == resolveCodeLocation(cache, clone.location2.file,
                             clone.location2.startLine, clone.location2.endLine)
        lineCount1 == clone.location1.endLine - clone.location1.startLine + 1
        lineCount2 == clone.location2.endLine - clone.location2.startLine + 1
    IN  [cloneType  |-> determineCloneType(r),
         scope      |-> determineScope(codeLocation1, codeLocation2),
         location1  |-> codeLocation1,
         location2  |-> codeLocation2,
         tokenCount |-> clone.tokenCount,
         lineCount  |-> Max(lineCount1, lineCount2)]

\* CodeCloneFragmentCheck.addIssueReport; the description is kept as the report
\* whose fields formatDescription prints
Fragment_addIssueReport(iss, r, report) ==
    Append(iss, [line        |-> report.location1.startLine,
                 startCol    |-> 0,
                 endCol      |-> 0,
                 description |-> report,
                 severity    |-> IF r.alert.kind = "number" THEN r.alert.val
                                 ELSE MetaDataSeverity,
                 filePath    |-> report.location1.file,
                 methodName  |-> IF report.location1.methodName = Undefined THEN <<>>
                                 ELSE report.location1.methodName])

\* the for loop of afterCheck over the merged clones from k on
RECURSIVE ReportLoop(_, _, _, _, _)
ReportLoop(iss, r, cache, clones, k) ==
    IF k > Len(clones) THEN iss
    ELSE ReportLoop(Fragment_addIssueReport(iss, r, createCloneReport(r, cache, clones[k])),
                    r, cache, clones, k + 1)

\* afterCheck's mergedClones for the clone pairs it got from the matcher; none when
\* it returns early
Fragment_mergedClones(merger, pairs) ==
    IF Len(pairs) = 0 THEN <<>> ELSE CloneMerger_merge(merger, pairs)

\* an afterCheck that reports the clone pairs without merging them
Fragment_afterCheckIssuesPerPair(iss, r, cache, merger, pairs) ==
    IF Len(pairs) = 0 THEN iss
    ELSE ReportLoop(iss, r, cache,
                    [k \in 1..Len(pairs) |-> createMergedClone(pairs[k], merger.windowSize)],
                    1)

\* CodeCloneFragmentCheck.afterCheck: this.issues when it returns
Fragment_afterCheckIssues(iss, r, cache, merger, pairs) ==
    IF Len(pairs) = 0 THEN iss
    ELSE ReportLoop(iss, r, cache, CloneMerger_merge(merger, pairs), 1)

\* a beforeCheck that keeps the matcher and the issues of the run before
Fragment_beforeCheckKeep(st, r) ==
    [st EXCEPT !.cloneMerger = NewCloneMerger(getMinimumTokens(r)),
               !.tokenizer = NewTokenizer(getNormalizeIdentifiers(r),
                                          getNormalizeLiterals(r)),
               !.fileCache = <<>>]

\* CodeCloneFragmentCheck.beforeCheck on the fields st of the checker
Fragment_beforeCheck(st, r) ==
    [cloneMatcher |-> NewCloneMatcher(getMinimumTokens(r)),
     cloneMerger  |-> NewCloneMerger(getMinimumTokens(r)),
     tokenizer    |-> NewTokenizer(getNormalizeIdentifiers(r), getNormalizeLiterals(r)),
     fileCache    |-> <<>>,
     issues       |-> <<>>]

\* readSourceFile: the text of the file, null when it cannot be read; the file system
\* is the source the ArkFile carries
readSourceFile(arkFile) == arkFile.source

\* !sourceCode: null or the empty string
IsFalsySource(sourceCode) == ~sourceCode.readable \/ sourceCode.text = <<>>

\* a collectTokens that gives up the run's matcher when the file cannot be read
Fragment_collectTokensFatal(st, r, arkFile) ==
    LET filePath   == arkFile.filePath
        sourceCode == readSourceFile(arkFile)
        tokens     == Tokenizer_tokenize(st.tokenizer, sourceCode, filePath)
    IN  IF ~sourceCode.readable
        THEN [st EXCEPT !.cloneMatcher = NewCloneMatcher(getMinimumTokens(r)),
                        !.fileCache = <<>>]
        ELSE IF IsFalsySource(sourceCode) THEN st
        ELSE IF Len(tokens) < getMinimumTokens(r) THEN st
        ELSE IF createSlidingWindowsThrows(tokens, st.cloneMatcher.windowSize)
             THEN [st EXCEPT !.fileCache = MapSet(@, filePath, arkFile)]
        ELSE [st EXCEPT !.fileCache = MapSet(@, filePath, arkFile),
                        !.cloneMatcher = CloneMatcher_processFile(@, tokens, filePath)]

\* CodeCloneFragmentCheck.collectTokens on the fields st of the checker; an error
\* thrown by processFile is caught after the file has been cached
Fragment_collectTokens(st, r, arkFile) ==
    LET filePath   == arkFile.filePath
        sourceCode == readSourceFile(arkFile)
        tokens     == Tokenizer_tokenize(st.tokenizer, sourceCode, filePath)
    IN  IF IsFalsySource(sourceCode) THEN st
        ELSE IF Len(tokens) < getMinimumTokens(r) THEN st
        ELSE IF createSlidingWindowsThrows(tokens, st.cloneMatcher.windowSize)
             THEN [st EXCEPT !.fileCache = MapSet(@, filePath, arkFile)]
        ELSE [st EXCEPT !.fileCache = MapSet(@, filePath, arkFile),
                        !.cloneMatcher = CloneMatcher_processFile(@, tokens, filePath)]

(***************************************************************************)
(* utils.ts: text normalisation and rule options                           *)
(***************************************************************************)
IsSpace(c) == c \in {9, 10, 11, 12, 13, 32}

IsDigit(c) == c >= 48 /\ c <= 57

IsLetter(c) == (c >= 65 /\ c <= 90) \/ (c >= 97 /\ c <= 122)

\* \w
IsWord(c) == IsLetter(c) \/ IsDigit(c) \/ c = 95

ToLower(c) == IF c >= 65 /\ c <= 90 THEN c + 32 ELSE c

\* text.replace(/\s+/g, " ") from position k on
RECURSIVE CollapseSpaces(_, _, _)
CollapseSpaces(text, k, out) ==
    IF k > Len(text) THEN out
    ELSE IF ~IsSpace(text[k]) THEN CollapseSpaces(text, k + 1, Append(out, text[k]))
    ELSE IF k > 1 /\ IsSpace(text[k - 1]) THEN CollapseSpaces(text, k + 1, out)
    ELSE CollapseSpaces(text, k + 1, Append(out, 32))

RECURSIVE TrimStart(_)
TrimStart(text) ==
    IF text # <<>> /\ IsSpace(text[1]) THEN TrimStart(Tail(text)) ELSE text

RECURSIVE TrimEnd(_)
TrimEnd(text) ==
    IF text # <<>> /\ IsSpace(text[Len(text)])
    THEN TrimEnd(SubSeq(text, 1, Len(text) - 1)) ELSE text

\* String.prototype.trim
Trim(text) == TrimEnd(TrimStart(text))

\* the last position of the maximal run from k on whose characters satisfy a class;
\* k - 1 when the run is empty
RECURSIVE RunEndNotColonSpace(_, _)
RunEndNotColonSpace(text, k) ==
    IF k <= Len(text) /\ text[k] # 58 /\ ~IsSpace(text[k])
    THEN RunEndNotColonSpace(text, k + 1) ELSE k - 1

RECURSIVE RunEndWord(_, _)
RunEndWord(text, k) ==
    IF k <= Len(text) /\ IsWord(text[k]) THEN RunEndWord(text, k + 1) ELSE k - 1

RECURSIVE RunEndDigit(_, _)
RunEndDigit(text, k) ==
    IF k <= Len(text) /\ IsDigit(text[k]) THEN RunEndDigit(text, k + 1) ELSE k - 1

RECURSIVE RunEndSpace(_, _)
RunEndSpace(text, k) ==
    IF k <= Len(text) /\ IsSpace(text[k]) THEN RunEndSpace(text, k + 1) ELSE k - 1

\* the first position of the maximal run of letters that ends at q; q + 1 when empty
RECURSIVE LetterSuffixStart(_, _, _)
LetterSuffixStart(text, low, q) ==
    IF q >= low /\ IsLetter(text[q]) THEN LetterSuffixStart(text, low, q - 1) ELSE q + 1

\* text has the literal at position k
HasAt(text, k, literal) ==
    /\ k + Len(literal) - 1 <= Len(text)
    /\ \A d \in 1..Len(literal) : text[k + d - 1] = literal[d]

\* "@FILE:", "this: @FILE: ", "this: @FILE: CLASS", "%AC"
StrAtFile    == <<64, 70, 73, 76, 69, 58>>
StrThisFile  == <<116, 104, 105, 115, 58, 32, 64, 70, 73, 76, 69, 58, 32>>
StrThisClass == StrThisFile \o <<67, 76, 65, 83, 83>>
StrAC        == <<37, 65, 67>>

\* the length of the match of /@[^:\s]+\.[a-z]+:/i at position p, 0 when none: the
\* characters up to the colon are the maximal run without colon and whitespace, and
\* the run ends in a dot and letters with something before the dot
MatchFileRef(text, p) ==
    IF p > Len(text) \/ text[p] # 64 THEN 0
    ELSE LET q == RunEndNotColonSpace(text, p + 1)
             t == LetterSuffixStart(text, p + 1, q)
         IN  IF /\ q + 1 <= Len(text)
                /\ text[q + 1] = 58
                /\ t <= q
                /\ t - 1 >= p + 2
                /\ text[t - 1] = 46
             THEN q + 1 - p + 1
             ELSE 0

\* the length of the match of /this: @FILE: \w+/ at position p, 0 when none
MatchThisFile(text, p) ==
    IF ~HasAt(text, p, StrThisFile) THEN 0
    ELSE LET q == RunEndWord(text, p + Len(StrThisFile))
         IN  IF q >= p + Len(StrThisFile) THEN q - p + 1 ELSE 0

\* the length of the match of /%AC\d+/ at position p, 0 when none
MatchTemp(text, p) ==
    IF ~HasAt(text, p, StrAC) THEN 0
    ELSE LET q == RunEndDigit(text, p + Len(StrAC))
         IN  IF q >= p + Len(StrAC) THEN q - p + 1 ELSE 0

RECURSIVE ReplaceFileRefs(_, _, _)
ReplaceFileRefs(text, p, out) ==
    IF p > Len(text) THEN out
    ELSE IF MatchFileRef(text, p) > 0
    THEN ReplaceFileRefs(text, p + MatchFileRef(text, p), out \o StrAtFile)
    ELSE ReplaceFileRefs(text, p + 1, Append(out, text[p]))

RECURSIVE ReplaceThisFile(_, _, _)
ReplaceThisFile(text, p, out) ==
    IF p > Len(text) THEN out
    ELSE IF MatchThisFile(text, p) > 0
    THEN ReplaceThisFile(text, p + MatchThisFile(text, p), out \o StrThisClass)
    ELSE ReplaceThisFile(text, p + 1, Append(out, text[p]))

RECURSIVE ReplaceTemps(_, _, _)
ReplaceTemps(text, p, out) ==
    IF p > Len(text) THEN out
    ELSE IF MatchTemp(text, p) > 0
    THEN ReplaceTemps(text, p + MatchTemp(text, p), out \o StrAC)
    ELSE ReplaceTemps(text, p + 1, Append(out, text[p]))

normalizeBasic(text) ==
    LET t1 == Trim(CollapseSpaces(text, 1, <<>>))
        t2 == ReplaceFileRefs(t1, 1, <<>>)
        t3 == ReplaceThisFile(t2, 1, <<>>)
    IN  ReplaceTemps(t3, 1, <<>>)

\* "console", "hilog", "logger": the alternatives of the log pattern, lower case
LogPrefixes ==
    {<<99, 111, 110, 115, 111, 108, 101>>, <<104, 105, 108, 111, 103>>,
     <<108, 111, 103, 103, 101, 114>>}

\* /^(console|hilog|Logger)\.\w+\s*\([\s\S]*\)$/i on the trimmed text of the statement
isLogStatement(stmt) ==
    LET text  == Trim(stmt.text)
        lower == [k \in 1..Len(text) |-> ToLower(text[k])]
    IN  \E prefix \in LogPrefixes :
            /\ HasAt(lower, 1, prefix)
            /\ Len(text) > Len(prefix)
            /\ text[Len(prefix) + 1] = 46
            /\ LET w == RunEndWord(text, Len(prefix) + 2)
                   r == RunEndSpace(text, w + 1) + 1
               IN  /\ w >= Len(prefix) + 2
                   /\ r <= Len(text)
                   /\ text[r] = 40
                   /\ Len(text) > r
                   /\ text[Len(text)] = 41

shouldSkipClass(className) == startsWithPercent(className)

\* shouldSkipMethod that lets constructors through
shouldSkipMethodPercentOnly(methodName) == startsWithPercent(methodName)

shouldSkipMethod(methodName) ==
    methodName = ConstructorName \/ startsWithPercent(methodName)

\* utils.ts getMethodEndLine
getMethodEndLine(method) ==
    IF ~method.hasBody THEN method.line ELSE MaxLine(method.stmts, 1, method.line)

\* getRuleOption for one key: a configured value [kind, val] replaces the default
\* when the rule has a first option object and typeof the value is typeof the default
getRuleOption(r, configured, defaultKind, defaultValue) ==
    IF ~r.hasOption THEN defaultValue
    ELSE IF configured.kind = defaultKind THEN configured.val
    ELSE defaultValue

(***************************************************************************)
(* CodeCloneBaseCheck and CodeCloneType1Check                              *)
(***************************************************************************)
DEFAULT_MIN_STMTS == 5

getMinStmts(r) == getRuleOption(r, r.option.minStmts, "number", DEFAULT_MIN_STMTS)

getIgnoreLogs(r) == getRuleOption(r, r.option.ignoreLogs, "boolean", TRUE)

\* Array.prototype.filter keeping the statements that are not log statements
RECURSIVE DropLogs(_, _, _)
DropLogs(stmts, k, out) ==
    IF k > Len(stmts) THEN out
    ELSE DropLogs(stmts, k + 1, IF isLogStatement(stmts[k]) THEN out
                                ELSE Append(out, stmts[k]))

\* a filterStatements that keeps every statement
filterStatementsKeepAll(r, stmts) == stmts

filterStatements(r, stmts) ==
    IF ~getIgnoreLogs(r) THEN stmts ELSE DropLogs(stmts, 1, <<>>)

\* CodeCloneType1Check.computeHash
Type1_computeHash(stmts) ==
    LET stmtStrings == [k \in 1..Len(stmts) |-> normalizeBasic(stmts[k].text)]
    IN  djb2HashUtils(Join(stmtStrings, <<CharBar>>))

\* extractMethodInfo: <<>> for null, else the one MethodInfo
extractMethodInfo(r, method, filePath, className) ==
    IF ~method.hasBody THEN <<>>
    ELSE IF Len(method.stmts) = 0 THEN <<>>
    ELSE LET stmts == filterStatements(r, method.stmts)
         IN  IF Len(stmts) = 0 THEN <<>>
             ELSE <<[filePath   |-> filePath,
                     className  |-> className,
                     methodName |-> method.name,
                     startLine  |-> method.line,
                     endLine    |-> getMethodEndLine(method),
                     hash       |-> Type1_computeHash(stmts),
                     stmtCount  |-> Len(stmts)]>>

\* addMethodToHash on the Map hash -> MethodInfo[]
addMethodToHash(byHash, methodInfo) ==
    LET k == MapPos(byHash, methodInfo.hash, 1)
    IN  IF k # 0 THEN [byHash EXCEPT ![k].value = Append(@, methodInfo)]
        ELSE Append(byHash, [key |-> methodInfo.hash, value |-> <<methodInfo>>])

\* the two nested loops of collectMethods from class c, method m on
RECURSIVE CollectLoop(_, _, _, _, _, _)
CollectLoop(byHash, r, filePath, classes, c, m) ==
    IF c > Len(classes) THEN byHash
    ELSE IF shouldSkipClass(classes[c].name)
    THEN CollectLoop(byHash, r, filePath, classes, c + 1, 1)
    ELSE IF m > Len(classes[c].methods)
    THEN CollectLoop(byHash, r, filePath, classes, c + 1, 1)
    ELSE LET method == classes[c].methods[m]
             info   == extractMethodInfo(r, method, filePath, classes[c].name)
         IN  IF shouldSkipMethod(method.name)
             THEN CollectLoop(byHash, r, filePath, classes, c, m + 1)
             ELSE IF info # <<>> /\ info[1].stmtCount >= getMinStmts(r)
             THEN CollectLoop(addMethodToHash(byHash, info[1]), r, filePath, classes,
                              c, m + 1)
             ELSE CollectLoop(byHash, r, filePath, classes, c, m + 1)

collectMethods(byHash, r, arkFile) ==
    CollectLoop(byHash, r, arkFile.filePath, arkFile.classes, 1, 1)

\* the model's file paths as strings of characters
FilePathChars(filePath) ==
    IF filePath = "a.ets" THEN <<97, 46, 101, 116, 115>> ELSE <<98, 46, 101, 116, 115>>

\* the order of the default Array.prototype.sort: by UTF-16 code units
RECURSIVE StrLess(_, _)
StrLess(x, y) ==
    IF y = <<>> THEN FALSE
    ELSE IF x = <<>> THEN TRUE
    ELSE IF x[1] # y[1] THEN x[1] < y[1]
    ELSE StrLess(Tail(x), Tail(y))

getPairKey(pair) ==
    LET key1 == FilePathChars(pair.method1.filePath) \o <<58>> \o pair.method1.methodName
        key2 == FilePathChars(pair.method2.filePath) \o <<58>> \o pair.method2.methodName
    IN  IF StrLess(key2, key1) THEN key2 \o <<CharBar>> \o key1
        ELSE key1 \o <<CharBar>> \o key2

\* CodeCloneBaseCheck.addIssueReport; the description is kept as the values that
\* getDescription prints
Method_addIssueReport(iss, r, method, cloneWith) ==
    Append(iss, [line        |-> method.startLine,
                 startCol    |-> 0,
                 endCol      |-> Len(method.methodName),
                 description |-> [cloneType |-> "Type-1", method |-> method,
                                  cloneWith |-> cloneWith],
                 severity    |-> IF r.alert.kind = "number" THEN r.alert.val
                                 ELSE MetaDataSeverity,
                 filePath    |-> method.filePath,
                 methodName  |-> method.methodName])

\* reportClonePair on the state st = [reportedPairs, issues]
reportClonePair(st, r, pair) ==
    LET pairKey == getPairKey(pair)
    IN  IF pairKey \in st.reportedPairs THEN st
        ELSE [reportedPairs |-> st.reportedPairs \cup {pairKey},
              issues        |-> Method_addIssueReport(st.issues, r, pair.method1,
                                                      pair.method2)]

\* the loops of findClonePairs from group g, indices i < j on
RECURSIVE FindLoop(_, _, _, _, _, _)
FindLoop(st, r, byHash, g, i, j) ==
    IF g > Len(byHash) THEN st
    ELSE LET methods == byHash[g].value
         IN  IF Len(methods) < 2 \/ i > Len(methods)
             THEN FindLoop(st, r, byHash, g + 1, 1, 2)
             ELSE IF j > Len(methods) THEN FindLoop(st, r, byHash, g, i + 1, i + 2)
             ELSE FindLoop(reportClonePair(st, r, [method1 |-> methods[i],
                                                   method2 |-> methods[j]]),
                           r, byHash, g, i, j + 1)

findClonePairs(st, r, byHash) == FindLoop(st, r, byHash, 1, 1, 2)

\* CodeCloneBaseCheck.beforeCheck on the fields st of the checker
Method_beforeCheck(st) ==
    [methodsByHash |-> <<>>, reportedPairs |-> {}, issues |-> <<>>]

(***************************************************************************)
(* Bounds and inputs                                                       *)
(***************************************************************************)
MaxStrLen == 7        \* longest string handed to djb2Hash
MaxTokens == 5        \* longest token sequence handed to createSlidingWindows
MaxWindow == 3        \* largest window size
MaxBelowZero == 1     \* window sizes below zero handed to createSlidingWindows
TokensPerLine == 2    \* tokens on one source line of the generated inputs
MaxAdds == 4          \* HashIndex.add calls between two clears
MaxStart == 2         \* largest startIndex of location1 of an input ClonePair
MaxPairs == 3         \* longest argument of mergeClonePairs
Shift == 10           \* startIndex distance of the two sides of an input ClonePair

SeqsUpTo(S, n) == UNION {[1..k -> S] : k \in 0..n}

HashAlphabet == {CharA, CharB, CharBar}

\* mockTokens: identifier tokens without a file, TokensPerLine on a line
mockTokens(values, startLine) ==
    [k \in 1..Len(values) |->
        createToken(values[k], "IDENTIFIER", startLine + ((k - 1) \div TokensPerLine),
                    0, "undefined")]

TokenValues == {<<CharA>>, <<CharB>>}

\* the FragmentLocation of the window of size w at startIndex in a file laid out
\* TokensPerLine tokens a line
InputLocation(file, startIndex, w) ==
    [file       |-> file,
     startIndex |-> startIndex,
     startLine  |-> 1 + (startIndex \div TokensPerLine),
     endLine    |-> 1 + ((startIndex + w - 1) \div TokensPerLine)]

MergeFilePairs == {<<"a.ets", "a.ets">>, <<"a.ets", "b.ets">>}

InputPairs(w) ==
    {[location1 |-> InputLocation(fp[1], s, w),
      location2 |-> InputLocation(fp[2], s + Shift + d, w),
      tokenCount |-> w] : fp \in MergeFilePairs, s \in 0..MaxStart, d \in 0..1}

IndexHashes == {djb2Hash(<<CharA>>), djb2Hash(<<CharB>>), djb2Hash(<<CharA, CharBar, CharB>>)}

IndexLocations ==
    {InputLocation("a.ets", 0, 1), InputLocation("a.ets", 1, 1), InputLocation("b.ets", 0, 1)}

hashVars  == <<hashIn, hashOut, hashOutUtils, hashDone>>
winVars   == <<winTokens, winSize, winOut, winCount, winThrew, winDone>>
indexVars == <<index, addLog, cleared>>
mergeVars == <<mPairs, mWindow, mSorted, mI, mCurrent, mMerged, mPc, mPrev>>
fragVars  == <<rule, cloneMatcher, cloneMerger, tokenizer, fileCache, issues, phase,
               clonePairs, mergedClones, delivered, hadRun>>
methodVars == <<methodRule, methodsByHash, reportedPairs, methodIssues, methodPhase,
                methodDelivered, methodHadRun>>
callVars  == <<callArgs, callResult, callDone>>
checkerVars == <<registered, fragVars, methodVars, callVars>>
vars      == <<hashVars, winVars, indexVars, mergeVars, checkerVars>>

HashIdle  == hashIn = <<>> /\ hashOut = <<>> /\ hashOutUtils = <<>> /\ hashDone = FALSE
WinIdle   == /\ winTokens = <<>> /\ winSize = 1 /\ winOut = <<>> /\ winCount = 0
             /\ winThrew = FALSE /\ winDone = FALSE
IndexIdle == index = <<>> /\ addLog = <<>> /\ cleared = FALSE
MergeIdle == /\ mPairs = <<>> /\ mWindow = 1 /\ mSorted = <<>> /\ mI = 0
             /\ mCurrent = NoResult /\ mMerged = <<>> /\ mPc = "idle" /\ mPrev = 0

\* a checker whose rule the host has not set: this.rule is undefined
UnsetFragmentRule ==
    [alert |-> [kind |-> "undefined", val |-> 0], hasOption |-> FALSE,
     option |-> [minimumTokens |-> [kind |-> "undefined", val |-> 0],
                 normalizeIdentifiers |-> [kind |-> "undefined", val |-> FALSE],
                 normalizeLiterals |-> [kind |-> "undefined", val |-> FALSE]]]

UnsetMethodRule ==
    [alert |-> [kind |-> "undefined", val |-> 0], hasOption |-> FALSE,
     option |-> [minStmts |-> [kind |-> "undefined", val |-> 0],
                 ignoreLogs |-> [kind |-> "undefined", val |-> FALSE]]]

\* CodeCloneFragmentCheck after its constructor
FragmentConstructed ==
    /\ cloneMatcher = NewCloneMatcher(DEFAULT_MINIMUM_TOKENS)
    /\ cloneMerger = NewCloneMerger(DEFAULT_MINIMUM_TOKENS)
    /\ tokenizer = NewTokenizer(DEFAULT_NORMALIZE_IDENTIFIERS, DEFAULT_NORMALIZE_LITERALS)
    /\ fileCache = <<>> /\ issues = <<>> /\ phase = "constructed"
    /\ clonePairs = <<>> /\ mergedClones = <<>> /\ delivered = <<>> /\ hadRun = FALSE

\* CodeCloneBaseCheck after its field initialisers
MethodConstructed ==
    /\ methodsByHash = <<>> /\ reportedPairs = {} /\ methodIssues = <<>>
    /\ methodPhase = "constructed" /\ methodDelivered = <<>> /\ methodHadRun = FALSE

CallIdle == callArgs = <<>> /\ callResult = <<>> /\ callDone = FALSE

CheckersIdle ==
    /\ CallIdle
    /\ registered = "none"
    /\ rule = UnsetFragmentRule /\ FragmentConstructed
    /\ methodRule = UnsetMethodRule /\ MethodConstructed

(***************************************************************************)
(* SpecHash: djb2Hash applied to a string                                  *)
(***************************************************************************)
InitHash ==
    /\ hashIn \in SeqsUpTo(HashAlphabet, MaxStrLen)
    /\ hashOut = <<>> /\ hashOutUtils = <<>> /\ hashDone = FALSE
    /\ WinIdle /\ IndexIdle /\ MergeIdle /\ CheckersIdle

ApplyHash ==
    /\ ~hashDone
    /\ hashDone' = TRUE
    /\ hashOut' = djb2Hash(hashIn)
    /\ hashOutUtils' = djb2HashUtils(hashIn)
    /\ UNCHANGED <<hashIn, winVars, indexVars, mergeVars, checkerVars>>

NextHash == ApplyHash

SpecHash == InitHash /\ [][NextHash]_vars

(***************************************************************************)
(* SpecWindows: createSlidingWindows and getWindowCount applied to tokens  *)
(***************************************************************************)
InitWindows ==
    /\ \E values \in SeqsUpTo(TokenValues, MaxTokens) : winTokens = mockTokens(values, 1)
    /\ winSize \in (0 - MaxBelowZero)..MaxWindow
    /\ winOut = <<>> /\ winCount = 0 /\ winThrew = FALSE /\ winDone = FALSE
    /\ HashIdle /\ IndexIdle /\ MergeIdle /\ CheckersIdle

ApplyWindows ==
    /\ ~winDone
    /\ winDone' = TRUE
    /\ winThrew' = createSlidingWindowsThrows(winTokens, winSize)
    /\ winOut' = IF createSlidingWindowsThrows(winTokens, winSize) THEN <<>>
                 ELSE createSlidingWindows(winTokens, winSize)
    /\ winCount' = getWindowCount(Len(winTokens), winSize)
    /\ UNCHANGED <<winTokens, winSize, hashVars, indexVars, mergeVars, checkerVars>>

NextWindows == ApplyWindows

SpecWindows == InitWindows /\ [][NextWindows]_vars

(***************************************************************************)
(* SpecIndex: add and clear on one HashIndex                               *)
(***************************************************************************)
InitIndex == IndexIdle /\ HashIdle /\ WinIdle /\ MergeIdle /\ CheckersIdle

IndexAdd(hash, location) ==
    /\ Len(addLog) < MaxAdds
    /\ index' = HashIndex_add(index, hash, location)
    /\ addLog' = Append(addLog, <<hash, location>>)
    /\ UNCHANGED <<cleared, hashVars, winVars, mergeVars, checkerVars>>

IndexClear ==
    /\ index' = HashIndex_clear(index)
    /\ addLog' = <<>>
    /\ cleared' = TRUE
    /\ UNCHANGED <<hashVars, winVars, mergeVars, checkerVars>>

NextIndex ==
    \/ \E hash \in IndexHashes, location \in IndexLocations : IndexAdd(hash, location)
    \/ IndexClear

SpecIndex == InitIndex /\ [][NextIndex]_vars

(***************************************************************************)
(* SpecMerge: mergeClonePairs, one loop iteration per step                 *)
(***************************************************************************)
InitMerge ==
    /\ mWindow \in (MaxWindow - 1)..MaxWindow
    /\ mPairs \in SeqsUpTo(InputPairs(mWindow), MaxPairs)
    /\ mSorted = <<>> /\ mI = 0 /\ mCurrent = NoResult /\ mMerged = <<>>
    /\ mPc = "start" /\ mPrev = 0
    /\ HashIdle /\ WinIdle /\ IndexIdle /\ CheckersIdle

\* if (pairs.length === 0) return []
MergeEmpty ==
    /\ mPc = "start" /\ Len(mPairs) = 0
    /\ mPc' = "done"
    /\ UNCHANGED <<mPairs, mWindow, mSorted, mI, mCurrent, mMerged, mPrev>>
    /\ UNCHANGED <<hashVars, winVars, indexVars, checkerVars>>

\* sorted = [...pairs].sort(...); current = createMergedClone(sorted[0]); i = 1
MergeStart ==
    /\ mPc = "start" /\ Len(mPairs) # 0
    /\ mSorted' = SortPairs(mPairs)
    /\ mCurrent' = createMergedClone(mSorted'[1], mWindow)
    /\ mI' = 1
    /\ mPc' = "loop"
    /\ UNCHANGED <<mPairs, mWindow, mMerged, mPrev>>
    /\ UNCHANGED <<hashVars, winVars, indexVars, checkerVars>>

\* loop body, isConsecutive(sorted[i - 1], sorted[i]) true
MergeExtend ==
    /\ mPc = "loop" /\ mI < Len(mSorted)
    /\ isConsecutive(mSorted[mI], mSorted[mI + 1])
    /\ mCurrent' = extendMergedClone(mCurrent, mSorted[mI + 1])
    /\ mPrev' = mCurrent.tokenCount
    /\ mI' = mI + 1
    /\ UNCHANGED <<mPairs, mWindow, mSorted, mMerged, mPc>>
    /\ UNCHANGED <<hashVars, winVars, indexVars, checkerVars>>

\* loop body, isConsecutive(sorted[i - 1], sorted[i]) false
MergeFlush ==
    /\ mPc = "loop" /\ mI < Len(mSorted)
    /\ ~isConsecutive(mSorted[mI], mSorted[mI + 1])
    /\ mMerged' = Append(mMerged, mCurrent)
    /\ mCurrent' = createMergedClone(mSorted[mI + 1], mWindow)
    /\ mPrev' = 0
    /\ mI' = mI + 1
    /\ UNCHANGED <<mPairs, mWindow, mSorted, mPc>>
    /\ UNCHANGED <<hashVars, winVars, indexVars, checkerVars>>

\* merged.push(current); return merged
MergeFinish ==
    /\ mPc = "loop" /\ mI >= Len(mSorted)
    /\ mMerged' = Append(mMerged, mCurrent)
    /\ mPc' = "done"
    /\ UNCHANGED <<mPairs, mWindow, mSorted, mI, mCurrent, mPrev>>
    /\ UNCHANGED <<hashVars, winVars, indexVars, checkerVars>>

NextMerge == MergeEmpty \/ MergeStart \/ MergeExtend \/ MergeFlush \/ MergeFinish

SpecMerge == InitMerge /\ [][NextMerge]_vars

(***************************************************************************)
(* Claims about djb2Hash                                                   *)
(***************************************************************************)
\* h * m wrapped to 32 bits, for a small multiplier m
Mul32(h, m) ==
    LET lo32 == h.lo * m
    IN  [hi |-> (h.hi * m + (lo32 \div Half)) % Half, lo |-> lo32 % Half]

\* the value after the first n characters with the step hash*31 + charCode
RECURSIVE Fold31(_, _)
Fold31(str, n) ==
    IF n = 0 THEN Int32Zero
    ELSE Add32(Mul32(Fold31(str, n - 1), 31), CharCode32(str[n]))

\* the value after the first n characters with the step hash*33 - hash + charCode
RECURSIVE Fold33Minus(_, _)
Fold33Minus(str, n) ==
    IF n = 0 THEN Int32Zero
    ELSE LET h == Fold33Minus(str, n - 1)
         IN  Add32(Sub32(Mul32(h, 33), h), CharCode32(str[n]))

IsHexChar(c) == c \in 48..57 \/ c \in 97..102

HexValue(c) == IF c >= 97 THEN c - 87 ELSE c - 48

\* the unsigned value of the first n hexadecimal digits of ds
RECURSIVE ParseHex(_, _)
ParseHex(ds, n) ==
    IF n = 0 THEN Int32Zero
    ELSE Add32(Mul32(ParseHex(ds, n - 1), 16), CharCode32(HexValue(ds[n])))

\* out is the canonical base-16 rendering of the int32 h: an optional minus
\* sign, then 1 to 8 lowercase digits without a leading zero
RendersHex(out, h) ==
    LET neg == out # <<>> /\ out[1] = CharMinus
        ds  == IF neg THEN Tail(out) ELSE out
    IN  /\ Len(ds) \in 1..8
        /\ \A k \in 1..Len(ds) : IsHexChar(ds[k])
        /\ Len(ds) > 1 => ds[1] # 48
        /\ neg <=> IsNegative32(h)
        /\ ParseHex(ds, Len(ds)) = (IF neg THEN Negate32(h) ELSE h)

WindowCountProperty ==
    LET n        == Len(winTokens)
        expected == IF n - winSize + 1 > 0 THEN n - winSize + 1 ELSE 0
    IN  /\ ~winThrew
        /\ winCount = expected
        /\ Len(winOut) = expected
        /\ \A k \in 1..Len(winOut) :
              /\ winOut[k].startIndex = k - 1
              /\ Len(winOut[k].tokens) = winSize
              /\ \A j \in 1..winSize : winOut[k].tokens[j] = winTokens[k - 1 + j]

\* C4 as stated: for n tokens and ANY window size w, getWindowCount(n, w) =
\* max(0, n - w + 1) and createSlidingWindows returns that many windows, each of
\* exactly w consecutive tokens, with startIndex 0, 1, ..., n - w in that order.
C4_AnyWindowSize == winDone => WindowCountProperty

\* C4: getWindowCount(n, w) = max(0, n - w + 1) for every window size; for a
\* window size w >= 1 createSlidingWindows returns that many windows, the k-th
\* (from 0) with startIndex k and exactly the w tokens k .. k + w - 1, none when
\* n < w; for a window size w <= 0 it returns nothing and throws.
C4_WindowCount ==
    winDone =>
        /\ winCount = (IF Len(winTokens) - winSize + 1 > 0
                       THEN Len(winTokens) - winSize + 1 ELSE 0)
        /\ winSize >= 1 => WindowCountProperty
        /\ winSize <= 0 => winThrew

\* five tokens cut into three windows of three
C4_Witness ==
    winDone /\ Len(winTokens) = 5 /\ winSize = 3 /\ Len(winOut) = 3 /\ winCount = 3

(***************************************************************************)
(* Claims about the HashIndex                                              *)
(***************************************************************************)
\* the locations added under hash since the last clear, in insertion order
LoggedLocations(hash) ==
    LET f == SelectSeq(addLog, LAMBDA e : e[1] = hash)
    IN  [k \in 1..Len(f) |-> f[k][2]]

\* the hashes of the first n log entries, each once, in order of first insertion
RECURSIVE LoggedHashes(_)
LoggedHashes(n) ==
    IF n = 0 THEN <<>>
    ELSE IF \E j \in 1..(n - 1) : addLog[j][1] = addLog[n][1]
    THEN LoggedHashes(n - 1)
    ELSE Append(LoggedHashes(n - 1), addLog[n][1])

\* C7: get(h) is the locations added under h since the last clear, in
\* insertion order; size() is the number of distinct hashes added since then;
\* getDuplicates() is the hashes with at least two locations, each once, in
\* order of first insertion, with their locations; after clear() all is empty.
C7_IndexContract ==
    LET hashes   == LoggedHashes(Len(addLog))
        expected == SelectSeq(hashes, LAMBDA h : Len(LoggedLocations(h)) >= 2)
        dups     == HashIndex_getDuplicates(index)
    IN  /\ \A h \in IndexHashes : HashIndex_get(index, h) = LoggedLocations(h)
        /\ HashIndex_size(index) = Len(hashes)
        /\ Len(dups) = Len(expected)
        /\ \A k \in 1..Len(dups) :
              /\ dups[k].hash = expected[k]
              /\ dups[k].locations = LoggedLocations(expected[k])
        /\ addLog = <<>> =>
              /\ HashIndex_size(index) = 0
              /\ \A h \in IndexHashes : HashIndex_get(index, h) = <<>>

\* after a clear, two hashes are indexed and one of them is a duplicate group
C7_Witness ==
    /\ cleared
    /\ Len(addLog) >= 3
    /\ HashIndex_size(index) = 2
    /\ Len(HashIndex_getDuplicates(index)) = 1

(***************************************************************************)
(* Claims about mergeClonePairs                                            *)
(***************************************************************************)
HasCurrent == mPc = "loop" \/ (mPc = "done" /\ mPairs # <<>>)

RegionShape(m) ==
    /\ m.location1.endIndex = m.location1.startIndex + m.tokenCount - 1
    /\ m.location2.endIndex = m.location2.startIndex + m.tokenCount - 1
    /\ m.tokenCount >= mWindow

\* C3: at every step of a merge, the region being built and every region
\* already returned have endIndex = startIndex + tokenCount - 1 on both sides
\* and tokenCount >= windowSize, and an extension never lowers tokenCount.
C3_RegionInvariant ==
    /\ HasCurrent => RegionShape(mCurrent)
    /\ \A k \in 1..Len(mMerged) : RegionShape(mMerged[k])
    /\ mPrev # 0 => mCurrent.tokenCount >= mPrev

\* a finished merge that returned a region extended twice
C3_Witness ==
    /\ mPc = "done"
    /\ \E k \in 1..Len(mMerged) : mMerged[k].tokenCount = mWindow + 2
    /\ mPrev # 0

Starts == {mPairs[k].location1.startIndex : k \in 1..Len(mPairs)}

\* the pairs are distinct pairs of one file pair at one startIndex distance
OneDiagonal ==
    /\ mPairs # <<>>
    /\ \A j, k \in 1..Len(mPairs) :
          /\ mPairs[j].location1.file = mPairs[k].location1.file
          /\ mPairs[j].location2.file = mPairs[k].location2.file
          /\ mPairs[j].location2.startIndex - mPairs[j].location1.startIndex
               = mPairs[k].location2.startIndex - mPairs[k].location1.startIndex
          /\ j # k => mPairs[j].location1.startIndex # mPairs[k].location1.startIndex

\* the first start index of each maximal run s, s+1, ... of start indices
RunStarts == {s \in Starts : s - 1 \notin Starts}

RunLength(s) ==
    CHOOSE n \in 1..Len(mPairs) :
        (\A i \in 0..(n - 1) : s + i \in Starts) /\ s + n \notin Starts

\* C2: k pairs of one file pair at s1.., s2.. in lockstep, in any order, merge
\* into one MergedClone with tokenCount = w + k - 1, startIndex s1 / s2 and
\* endIndex = startIndex + tokenCount - 1; with gaps in the offsets, each
\* run between gaps is a MergedClone of its own.
C2_ChainMerge ==
    (mPc = "done" /\ OneDiagonal) =>
        LET d == mPairs[1].location2.startIndex - mPairs[1].location1.startIndex
        IN  /\ Len(mMerged) = Cardinality(RunStarts)
            /\ \A s \in RunStarts :
                  \E k \in 1..Len(mMerged) :
                      LET m == mMerged[k]
                      IN  /\ m.location1.startIndex = s
                          /\ m.location2.startIndex = s + d
                          /\ m.tokenCount = mWindow + RunLength(s) - 1
                          /\ m.location1.endIndex = s + m.tokenCount - 1
                          /\ m.location2.endIndex = s + d + m.tokenCount - 1
                          /\ m.location1.file = mPairs[1].location1.file
                          /\ m.location2.file = mPairs[1].location2.file
            /\ (Cardinality(RunStarts) = 1 => Len(mMerged) = 1)

\* the pairs at 2/12, 0/10, 1/11 of a.ets/b.ets with window size 3 merged into
\* one region of 5 tokens
C2_Witness ==
    /\ mPc = "done" /\ OneDiagonal /\ mWindow = 3
    /\ Len(mPairs) = 3
    /\ mPairs[1].location1.startIndex = 2 /\ mPairs[1].location2.startIndex = 12
    /\ mPairs[2].location1.startIndex = 0 /\ mPairs[3].location1.startIndex = 1
    /\ Len(mMerged) = 1 /\ mMerged[1].tokenCount = 5
    /\ mMerged[1].location1.endIndex = mMerged[1].location1.startIndex + 4

\* two pairs with a gap between them merged into two regions
C2_GapReached ==
    /\ mPc = "done" /\ OneDiagonal /\ Len(mPairs) = 2
    /\ Starts = {0, 2} /\ Len(mMerged) = 2

\* the stepwise merge returns what the operator mergeClonePairs returns
MergeStepsAgree ==
    mPc = "done" => mMerged = mergeClonePairs(mPairs, mWindow)


(***************************************************************************)
(* The checkers under the host's protocol                                  *)
(*                                                                         *)
(* The host sets the rule of the checker its configuration enables, calls  *)
(* beforeCheck, hands every file of the project once to the registered     *)
(* file callback, calls afterCheck, and may check again on the same        *)
(* instance.                                                               *)
(***************************************************************************)
MaxMinimumTokens == 3   \* largest configured minimumTokens
MaxRepeat == 3          \* longest source that repeats one identifier
MaxMinStmts == 2        \* largest configured minStmts

CheckedFiles == {"a.ets", "b.ets"}

\* the text and the lexemes of a source that holds the items [text, kind],
\* TokensPerLine on a line, a space between two items of a line
RECURSIVE LayOut(_, _, _, _)
LayOut(items, k, text, lexemes) ==
    IF k > Len(items) THEN [readable |-> TRUE, text |-> text, lexemes |-> lexemes]
    ELSE LET sep == IF k = 1 THEN <<>>
                    ELSE IF (k - 1) % TokensPerLine = 0 THEN <<10>> ELSE <<32>>
         IN  LayOut(items, k + 1, text \o sep \o items[k].text,
                    Append(lexemes, [text |-> items[k].text, kind |-> items[k].kind,
                                     pos  |-> Len(text) + Len(sep)]))

SourceOf(items) == LayOut(items, 1, <<>>, <<>>)

Ident(value) == [text |-> value, kind |-> "Identifier"]

Idents(values) == [k \in 1..Len(values) |-> Ident(values[k])]

\* a file that cannot be read, and a file that is empty
Unreadable == [readable |-> FALSE, text |-> <<>>, lexemes |-> <<>>]
EmptyText  == [readable |-> TRUE, text |-> <<>>, lexemes |-> <<>>]

\* a a a ...
RepeatSource(n) == SourceOf(Idents([k \in 1..n |-> <<CharA>>]))

\* a b a b
AlternateSource == SourceOf(Idents(<<<<CharA>>, <<CharB>>, <<CharA>>, <<CharB>>>>))

\* a b c d a b c e
ExampleSource ==
    SourceOf(Idents(<<<<CharA>>, <<CharB>>, <<CharC>>, <<CharD>>,
                      <<CharA>>, <<CharB>>, <<CharC>>, <<CharE>>>>))

\* ab cd ab and xy zw xy: the same code up to the names
RenamedSourceA == SourceOf(Idents(<<<<97, 98>>, <<99, 100>>, <<97, 98>>>>))
RenamedSourceB == SourceOf(Idents(<<<<120, 121>>, <<122, 119>>, <<120, 121>>>>))

\* NUM 1 NUM: an identifier that reads like a normalised literal
MixedSource ==
    SourceOf(<<Ident(StrNUM), [text |-> <<49>>, kind |-> "NumericLiteral"], Ident(StrNUM)>>)

\* a << a a: a shift operator between identifiers
ShiftSource ==
    SourceOf(<<Ident(<<CharA>>), [text |-> <<60, 60>>, kind |-> "LessThanLessThanToken"],
               Ident(<<CharA>>), Ident(<<CharA>>)>>)

FragmentSources ==
    {Unreadable, EmptyText, AlternateSource, ExampleSource, RenamedSourceA, RenamedSourceB,
     MixedSource, ShiftSource} \cup {RepeatSource(n) : n \in 1..MaxRepeat}

\* "Cl", "m1", "m2", "m3", "%dflt"
NameCl      == <<67, 108>>
NameM1      == <<109, 49>>
NameM2      == <<109, 50>>
NameM3      == <<109, 51>>
NameDefault == <<37, 100, 102, 108, 116>>

\* a method with a body whose statements have the given texts, one a line
MethodOf(name, line, texts) ==
    [name |-> name, line |-> line, hasBody |-> TRUE,
     stmts |-> [k \in 1..Len(texts) |-> [text |-> texts[k], line |-> line + k]]]

\* "a = 1", "a  =  1 ", "console.log(a)", "%AC1 = a", "%AC2 = a",
\* "b = this: @a.ets: Cl", "b = this: @b.ets: Dm"
TextAssign     == <<97, 32, 61, 32, 49>>
TextAssignWide == <<97, 32, 32, 61, 32, 32, 49, 32>>
TextLog        == <<99, 111, 110, 115, 111, 108, 101, 46, 108, 111, 103, 40, 97, 41>>
TextTemp1      == <<37, 65, 67, 49, 32, 61, 32, 97>>
TextTemp2      == <<37, 65, 67, 50, 32, 61, 32, 97>>
TextThisA      == <<98, 32, 61, 32, 116, 104, 105, 115, 58, 32, 64, 97, 46, 101, 116, 115,
                    58, 32, 67, 108>>
TextThisB      == <<98, 32, 61, 32, 116, 104, 105, 115, 58, 32, 64, 98, 46, 101, 116, 115,
                    58, 32, 68, 109>>

DefaultClass ==
    [name |-> NameDefault, methods |-> <<MethodOf(NameDefault, 1, <<TextAssign>>)>>]

\* the class of a file handed to the fragment checker: m1 on lines 1..2, m2 on 3..4
FragmentClasses ==
    <<DefaultClass,
      [name |-> NameCl,
       methods |-> <<MethodOf(ConstructorName, 1, <<TextAssign, TextAssign, TextAssign>>),
                     MethodOf(NameM1, 1, <<TextAssign>>),
                     MethodOf(NameM2, 3, <<TextAssign>>)>>]>>

FragmentFiles ==
    {[filePath |-> f, source |-> src, classes |-> FragmentClasses] :
        f \in CheckedFiles, src \in FragmentSources}

MethodBodies ==
    {<<TextAssign>>, <<TextAssignWide>>, <<TextLog, TextAssign>>, <<TextLog>>,
     <<TextTemp1>>, <<TextTemp2>>, <<TextThisA>>, <<TextThisB>>, <<TextAssign, TextTemp1>>}

\* the class of a file handed to the method checker: m1 with one of the bodies, m2
\* with a = 1, and m3 without a body
MethodClasses(texts) ==
    <<DefaultClass,
      [name |-> NameCl,
       methods |-> <<MethodOf(ConstructorName, 1, <<TextAssign>>),
                     MethodOf(NameM1, 5, texts),
                     MethodOf(NameM2, 10, <<TextAssign>>),
                     [name |-> NameM3, line |-> 15, hasBody |-> FALSE, stmts |-> <<>>]>>]>>

MethodFiles ==
    {[filePath |-> f, source |-> Unreadable, classes |-> MethodClasses(texts)] :
        f \in CheckedFiles, texts \in MethodBodies}

Configured(kind, val) == [kind |-> kind, val |-> val]

\* the rules of the fragment checker: no option object, minimumTokens of the wrong
\* type, and minimumTokens with the two normalisation switches set or absent
FragmentRules ==
    {UnsetFragmentRule,
     [alert |-> Configured("number", 1), hasOption |-> TRUE,
      option |-> [minimumTokens |-> Configured("string", 2),
                  normalizeIdentifiers |-> Configured("undefined", FALSE),
                  normalizeLiterals |-> Configured("undefined", FALSE)]]}
    \cup
    {[alert |-> Configured("number", 1), hasOption |-> TRUE,
      option |-> [minimumTokens |-> Configured("number", n),
                  normalizeIdentifiers |-> ni, normalizeLiterals |-> nl]] :
        n \in 0..MaxMinimumTokens,
        ni \in {Configured("undefined", FALSE), Configured("boolean", FALSE)},
        nl \in {Configured("undefined", FALSE), Configured("boolean", TRUE)}}

MethodRules ==
    {UnsetMethodRule,
     [alert |-> Configured("number", 1), hasOption |-> TRUE,
      option |-> [minStmts |-> Configured("string", 1),
                  ignoreLogs |-> Configured("undefined", FALSE)]]}
    \cup
    {[alert |-> Configured("number", 1), hasOption |-> TRUE,
      option |-> [minStmts |-> Configured("number", n), ignoreLogs |-> il]] :
        n \in 1..MaxMinStmts,
        il \in {Configured("undefined", FALSE), Configured("boolean", FALSE)}}

\* the fields of the fragment checker that its hooks read and write
FragmentFields ==
    [cloneMatcher |-> cloneMatcher, cloneMerger |-> cloneMerger, tokenizer |-> tokenizer,
     fileCache |-> fileCache, issues |-> issues]

NotYetDelivered(files, arkFile) ==
    \A k \in 1..Len(files) : files[k].filePath # arkFile.filePath

harnessVars == <<hashVars, winVars, indexVars, mergeVars, callVars>>

FragmentBeforeCheck ==
    /\ registered = "fragment"
    /\ phase \in {"constructed", "done"}
    /\ LET st == Fragment_beforeCheck(FragmentFields, rule)
       IN  /\ cloneMatcher' = st.cloneMatcher
           /\ cloneMerger' = st.cloneMerger
           /\ tokenizer' = st.tokenizer
           /\ fileCache' = st.fileCache
           /\ issues' = st.issues
    /\ phase' = "collecting"
    /\ clonePairs' = <<>> /\ mergedClones' = <<>> /\ delivered' = <<>>
    /\ hadRun' = (hadRun \/ issues # <<>>)
    /\ UNCHANGED <<registered, rule, methodVars, harnessVars>>

CollectTokens(arkFile) ==
    /\ registered = "fragment"
    /\ phase = "collecting"
    /\ NotYetDelivered(delivered, arkFile)
    /\ LET st == Fragment_collectTokens(FragmentFields, rule, arkFile)
       IN  /\ cloneMatcher' = st.cloneMatcher
           /\ fileCache' = st.fileCache
    /\ delivered' = Append(delivered, arkFile)
    /\ UNCHANGED <<registered, rule, cloneMerger, tokenizer, issues, phase, clonePairs,
                   mergedClones, hadRun, methodVars, harnessVars>>

FragmentAfterCheck ==
    /\ registered = "fragment"
    /\ phase = "collecting"
    /\ clonePairs' = CloneMatcher_getClonePairs(cloneMatcher)
    /\ mergedClones' = Fragment_mergedClones(cloneMerger, clonePairs')
    /\ issues' = Fragment_afterCheckIssues(issues, rule, fileCache, cloneMerger, clonePairs')
    /\ phase' = "done"
    /\ UNCHANGED <<registered, rule, cloneMatcher, cloneMerger, tokenizer, fileCache,
                   delivered, hadRun, methodVars, harnessVars>>

InitFragment ==
    /\ HashIdle /\ WinIdle /\ IndexIdle /\ MergeIdle /\ CallIdle
    /\ registered = "fragment"
    /\ rule \in FragmentRules /\ FragmentConstructed
    /\ methodRule = UnsetMethodRule /\ MethodConstructed

NextFragment ==
    \/ FragmentBeforeCheck
    \/ \E arkFile \in FragmentFiles : CollectTokens(arkFile)
    \/ FragmentAfterCheck

SpecFragment == InitFragment /\ [][NextFragment]_vars

MethodBeforeCheck ==
    /\ registered = "method"
    /\ methodPhase \in {"constructed", "done"}
    /\ LET st == Method_beforeCheck([methodsByHash |-> methodsByHash,
                                     reportedPairs |-> reportedPairs,
                                     issues |-> methodIssues])
       IN  /\ methodsByHash' = st.methodsByHash
           /\ reportedPairs' = st.reportedPairs
           /\ methodIssues' = st.issues
    /\ methodPhase' = "collecting"
    /\ methodDelivered' = <<>>
    /\ methodHadRun' = (methodHadRun \/ methodIssues # <<>>)
    /\ UNCHANGED <<registered, methodRule, fragVars, harnessVars>>

CollectMethods(arkFile) ==
    /\ registered = "method"
    /\ methodPhase = "collecting"
    /\ NotYetDelivered(methodDelivered, arkFile)
    /\ methodsByHash' = collectMethods(methodsByHash, methodRule, arkFile)
    /\ methodDelivered' = Append(methodDelivered, arkFile)
    /\ UNCHANGED <<registered, methodRule, reportedPairs, methodIssues, methodPhase,
                   methodHadRun, fragVars, harnessVars>>

MethodAfterCheck ==
    /\ registered = "method"
    /\ methodPhase = "collecting"
    /\ LET st == findClonePairs([reportedPairs |-> reportedPairs, issues |-> methodIssues],
                                methodRule, methodsByHash)
       IN  /\ reportedPairs' = st.reportedPairs
           /\ methodIssues' = st.issues
    /\ methodPhase' = "done"
    /\ UNCHANGED <<registered, methodRule, methodsByHash, methodDelivered, methodHadRun,
                   fragVars, harnessVars>>

InitMethod ==
    /\ HashIdle /\ WinIdle /\ IndexIdle /\ MergeIdle /\ CallIdle
    /\ registered = "method"
    /\ rule = UnsetFragmentRule /\ FragmentConstructed
    /\ methodRule \in MethodRules /\ MethodConstructed

NextMethod ==
    \/ MethodBeforeCheck
    \/ \E arkFile \in MethodFiles : CollectMethods(arkFile)
    \/ MethodAfterCheck

\* either checker over any number of runs
InitLifecycle == InitFragment \/ InitMethod

NextLifecycle == NextFragment \/ NextMethod

SpecLifecycle == InitLifecycle /\ [][NextLifecycle]_vars


(***************************************************************************)
(* Properties of the fragment checker's run                                *)
(***************************************************************************)
\* q follows p in lockstep: same files, both start indices one further
LockstepNext(p, q) ==
    /\ p.location1.file = q.location1.file
    /\ p.location2.file = q.location2.file
    /\ q.location1.startIndex = p.location1.startIndex + 1
    /\ q.location2.startIndex = p.location2.startIndex + 1

\* the merged region m contains the window pair p, at the same offset on both sides
Covers(m, p, w) ==
    /\ m.location1.file = p.location1.file
    /\ m.location2.file = p.location2.file
    /\ m.location1.startIndex <= p.location1.startIndex
    /\ p.location1.startIndex + w - 1 <= m.location1.endIndex
    /\ p.location1.startIndex - m.location1.startIndex
         = p.location2.startIndex - m.location2.startIndex

\* C1: whenever the clone pairs that the matcher produced hold a pair at (i, j) and a
\* pair at (i+1, j+1) of the same two files, one merged region of afterCheck holds
\* both, also when a duplicate group has three or more locations.
C1_OneRegionPerChain ==
    phase = "done" =>
        \A i, j \in 1..Len(clonePairs) :
            LockstepNext(clonePairs[i], clonePairs[j]) =>
                \E k \in 1..Len(mergedClones) :
                    /\ Covers(mergedClones[k], clonePairs[i], cloneMerger.windowSize)
                    /\ Covers(mergedClones[k], clonePairs[j], cloneMerger.windowSize)

\* a run in which a group of three locations was merged
C1_GroupOfThreeMerged ==
    /\ phase = "done"
    /\ mergedClones # <<>>
    /\ \E g \in 1..Len(cloneMatcher.hashIndex) :
           Len(cloneMatcher.hashIndex[g].locations) >= 3

\* the pair p connects the locations x and y, in either order
Connects(p, x, y) ==
    \/ p.location1 = x /\ p.location2 = y
    \/ p.location1 = y /\ p.location2 = x

\* the sum of n(n-1)/2 over the groups of n >= 2 locations, from group g on
RECURSIVE ExpectedPairCount(_, _)
ExpectedPairCount(idx, g) ==
    IF g > Len(idx) THEN 0
    ELSE LET n == Len(idx[g].locations)
         IN  (IF n >= 2 THEN (n * (n - 1)) \div 2 ELSE 0) + ExpectedPairCount(idx, g + 1)

\* C5: getClonePairs returns n(n-1)/2 pairs for every hash with n >= 2 locations, one
\* for each two distinct locations of the group, each with tokenCount = windowSize;
\* no two locations are paired twice and a hash with one location gives no pair.
C5_AllPairsOnce ==
    phase = "done" =>
        LET idx == cloneMatcher.hashIndex
        IN  /\ Len(clonePairs) = ExpectedPairCount(idx, 1)
            /\ \A g \in 1..Len(idx) :
                   LET locs == idx[g].locations
                   IN  Len(locs) >= 2 =>
                           \A i, j \in 1..Len(locs) :
                               i < j =>
                                   Cardinality({k \in 1..Len(clonePairs) :
                                       Connects(clonePairs[k], locs[i], locs[j])}) = 1
            /\ \A k \in 1..Len(clonePairs) :
                   /\ clonePairs[k].tokenCount = cloneMatcher.windowSize
                   /\ clonePairs[k].location1 # clonePairs[k].location2
                   /\ \E g \in 1..Len(idx) :
                          /\ Len(idx[g].locations) >= 2
                          /\ \E i, j \in 1..Len(idx[g].locations) :
                                 /\ i < j
                                 /\ clonePairs[k].location1 = idx[g].locations[i]
                                 /\ clonePairs[k].location2 = idx[g].locations[j]
            /\ \A k, l \in 1..Len(clonePairs) :
                   k < l => ~Connects(clonePairs[l], clonePairs[k].location1,
                                      clonePairs[k].location2)

\* a run that indexed a group of three locations and a hash with one location
C5_Witness ==
    /\ phase = "done"
    /\ \E g \in 1..Len(cloneMatcher.hashIndex) :
           Len(cloneMatcher.hashIndex[g].locations) >= 3
    /\ \E g \in 1..Len(cloneMatcher.hashIndex) :
           Len(cloneMatcher.hashIndex[g].locations) = 1
    /\ Len(clonePairs) >= 3

\* the tokens collectTokens computes for a delivered file
TokensOf(arkFile) == Tokenizer_tokenize(tokenizer, arkFile.source, arkFile.filePath)

\* the delivered file went into the matcher
WasProcessed(arkFile) ==
    /\ ~IsFalsySource(arkFile.source)
    /\ Len(TokensOf(arkFile)) >= getMinimumTokens(rule)
    /\ ~createSlidingWindowsThrows(TokensOf(arkFile), cloneMatcher.windowSize)

\* the values of the window of w tokens at the 0-based index i
WindowValues(tokens, i, w) == [k \in 1..w |-> tokens[i + k].value]

\* the group holds the location of the window at index i of the file
InGroup(group, file, i) ==
    \E l \in 1..Len(group.locations) :
        group.locations[l].file = file /\ group.locations[l].startIndex = i

\* C6: in a run, two windows with equal token value sequences are in one duplicate
\* group, whatever their files, the order of the files, and the types, lines and
\* columns of the tokens; a, b, c, d, a, b, c, e with window size 3 gives one
\* duplicate group with the offsets 0 and 4, and one clone pair.
C6_EqualWindowsGrouped ==
    /\ phase \in {"collecting", "done"} =>
           \A d1, d2 \in 1..Len(delivered) :
               (WasProcessed(delivered[d1]) /\ WasProcessed(delivered[d2])) =>
                   LET w  == cloneMatcher.windowSize
                       t1 == TokensOf(delivered[d1])
                       t2 == TokensOf(delivered[d2])
                   IN  \A i1 \in 0..(Len(t1) - w), i2 \in 0..(Len(t2) - w) :
                           (WindowValues(t1, i1, w) = WindowValues(t2, i2, w)
                            /\ <<d1, i1>> # <<d2, i2>>) =>
                               \E g \in 1..Len(CloneMatcher_getMatches(cloneMatcher)) :
                                   /\ InGroup(CloneMatcher_getMatches(cloneMatcher)[g],
                                              delivered[d1].filePath, i1)
                                   /\ InGroup(CloneMatcher_getMatches(cloneMatcher)[g],
                                              delivered[d2].filePath, i2)
    /\ (/\ phase = "done"
        /\ Len(delivered) = 1
        /\ delivered[1].source = ExampleSource
        /\ cloneMatcher.windowSize = 3) =>
           /\ Len(CloneMatcher_getMatches(cloneMatcher)) = 1
           /\ [l \in 1..Len(CloneMatcher_getMatches(cloneMatcher)[1].locations) |->
                  CloneMatcher_getMatches(cloneMatcher)[1].locations[l].startIndex]
                = <<0, 4>>
           /\ Len(clonePairs) = 1

\* a run that took b.ets first and a.ets second and has a duplicate group with
\* windows of both files, on different lines, and of tokens of different types
C6_Witness ==
    /\ phase = "done"
    /\ Len(delivered) = 2
    /\ delivered[1].filePath = "b.ets"
    /\ \E g \in 1..Len(CloneMatcher_getMatches(cloneMatcher)) :
           LET locs == CloneMatcher_getMatches(cloneMatcher)[g].locations
           IN  /\ \E l \in 1..Len(locs) : locs[l].file = "a.ets"
               /\ \E l \in 1..Len(locs) : locs[l].file = "b.ets"
               /\ \E l, m \in 1..Len(locs) : locs[l].startLine # locs[m].startLine
    /\ \E d \in 1..2 :
           /\ WasProcessed(delivered[d])
           /\ \E k, l \in 1..Len(TokensOf(delivered[d])) :
                  /\ TokensOf(delivered[d])[k].value = TokensOf(delivered[d])[l].value
                  /\ TokensOf(delivered[d])[k].type # TokensOf(delivered[d])[l].type

\* the example of C6 has been run
C6_ExampleReached ==
    /\ phase = "done"
    /\ Len(delivered) = 1
    /\ delivered[1].source = ExampleSource
    /\ cloneMatcher.windowSize = 3
    /\ Len(clonePairs) = 1

\* C10: afterCheck of the fragment checker leaves one issue for every MergedClone of
\* the merger, in the merger's order and not one per clone pair, and the issue's file
\* path and line are location1's file and startLine.
C10_OneIssuePerMergedClone ==
    phase = "done" =>
        /\ Len(issues) = Len(mergedClones)
        /\ \A k \in 1..Len(issues) :
               /\ issues[k].filePath = mergedClones[k].location1.file
               /\ issues[k].line = mergedClones[k].location1.startLine

\* a run with several merged clones, fewer than clone pairs, whose two sides start
\* on different lines
C10_Witness ==
    /\ phase = "done"
    /\ Len(mergedClones) >= 2
    /\ Len(clonePairs) > Len(mergedClones)
    /\ \E k \in 1..Len(mergedClones) :
           mergedClones[k].location1.startLine # mergedClones[k].location2.startLine

(***************************************************************************)
(* Properties of the runs of one checker instance                          *)
(***************************************************************************)
RECURSIVE FoldCollectTokens(_, _, _, _)
FoldCollectTokens(st, r, files, k) ==
    IF k > Len(files) THEN st
    ELSE FoldCollectTokens(Fragment_collectTokens(st, r, files[k]), r, files, k + 1)

\* the issues of a run of a fragment checker that has never run before
FreshFragmentRun(r, files) ==
    LET st0 == [cloneMatcher |-> NewCloneMatcher(getMinimumTokens(r)),
                cloneMerger  |-> NewCloneMerger(getMinimumTokens(r)),
                tokenizer    |-> NewTokenizer(getNormalizeIdentifiers(r),
                                              getNormalizeLiterals(r)),
                fileCache    |-> <<>>,
                issues       |-> <<>>]
        st  == FoldCollectTokens(st0, r, files, 1)
    IN  Fragment_afterCheckIssues(<<>>, r, st.fileCache, st.cloneMerger,
                                  CloneMatcher_getClonePairs(st.cloneMatcher))

RECURSIVE FoldCollectMethods(_, _, _, _)
FoldCollectMethods(byHash, r, files, k) ==
    IF k > Len(files) THEN byHash
    ELSE FoldCollectMethods(collectMethods(byHash, r, files[k]), r, files, k + 1)

\* the issues of a run of a method checker that has never run before
FreshMethodRun(r, files) ==
    findClonePairs([reportedPairs |-> {}, issues |-> <<>>], r,
                   FoldCollectMethods(<<>>, r, files, 1)).issues

\* C9: on one checker instance, fragment or method level, a run starts its first file
\* with no indexed window, cached file, grouped method, reported-pair key or issue of
\* an earlier run, and the issues after afterCheck are those of a first run over the
\* files of this run alone.
C9_RunsIndependent ==
    /\ (phase = "collecting" /\ delivered = <<>>) =>
           /\ cloneMatcher.hashIndex = <<>>
           /\ fileCache = <<>>
           /\ issues = <<>>
    /\ phase = "done" => issues = FreshFragmentRun(rule, delivered)
    /\ (methodPhase = "collecting" /\ methodDelivered = <<>>) =>
           /\ methodsByHash = <<>>
           /\ reportedPairs = {}
           /\ methodIssues = <<>>
    /\ methodPhase = "done" => methodIssues = FreshMethodRun(methodRule, methodDelivered)

\* a later run of the fragment checker, after a run that reported issues, that
\* received files and ends with fewer issues than it would have inherited
C9_Witness ==
    /\ hadRun
    /\ phase = "done"
    /\ Len(delivered) = 2
    /\ Len(issues) = 1

\* a later run of the method checker after a run that reported issues
C9_MethodRunReached ==
    /\ methodHadRun
    /\ methodPhase = "done"
    /\ Len(methodDelivered) = 2
    /\ Len(methodIssues) = 1

(***************************************************************************)
(* SpecDetermineScope: determineScope applied to two code locations        *)
(***************************************************************************)
\* "Dm"
NameDm == <<68, 109>>

\* code locations as determineScope can be handed them: any mix of a resolved or
\* unresolved class name and method name
ScopeLocations ==
    {[file |-> f, startLine |-> 1, endLine |-> 2, className |-> c, methodName |-> m] :
        f \in CheckedFiles, c \in {Undefined, NameCl, NameDm},
        m \in {Undefined, NameM1, NameM2}}

InitDetermineScope ==
    /\ HashIdle /\ WinIdle /\ IndexIdle /\ MergeIdle
    /\ registered = "none"
    /\ rule = UnsetFragmentRule /\ FragmentConstructed
    /\ methodRule = UnsetMethodRule /\ MethodConstructed
    /\ callArgs \in [loc1 : ScopeLocations, loc2 : ScopeLocations]
    /\ callResult = <<>> /\ callDone = FALSE

ApplyDetermineScope ==
    /\ ~callDone
    /\ callDone' = TRUE
    /\ callResult' = [scope   |-> determineScope(callArgs.loc1, callArgs.loc2),
                      swapped |-> determineScope(callArgs.loc2, callArgs.loc1)]
    /\ UNCHANGED <<callArgs, hashVars, winVars, indexVars, mergeVars, registered,
                   fragVars, methodVars>>

NextDetermineScope == ApplyDetermineScope

SpecDetermineScope == InitDetermineScope /\ [][NextDetermineScope]_vars

\* C12: determineScope returns SAME_METHOD exactly when the two locations have the
\* same file, the same class name and the same defined method name; otherwise
\* SAME_CLASS exactly when they have the same file and the same defined class name;
\* otherwise DIFFERENT_CLASS; and swapping the two locations gives the same result.
C12_ScopeTable ==
    callDone =>
        LET a == callArgs.loc1
            b == callArgs.loc2
            sameMethod == /\ a.file = b.file /\ a.className = b.className
                          /\ a.methodName = b.methodName /\ a.methodName # Undefined
            sameClass  == /\ a.file = b.file /\ a.className = b.className
                          /\ a.className # Undefined
        IN  /\ (callResult.scope = "SAME_METHOD") <=> sameMethod
            /\ (callResult.scope = "SAME_CLASS") <=> (~sameMethod /\ sameClass)
            /\ (callResult.scope = "DIFFERENT_CLASS") <=> (~sameMethod /\ ~sameClass)
            /\ callResult.swapped = callResult.scope

\* two locations of one file with neither class nor method resolved
C12_Witness ==
    /\ callDone
    /\ callArgs.loc1.file = callArgs.loc2.file
    /\ callArgs.loc1.className = Undefined /\ callArgs.loc2.className = Undefined
    /\ callArgs.loc1.methodName = Undefined /\ callArgs.loc2.methodName = Undefined
    /\ callResult.scope = "DIFFERENT_CLASS"

\* the three scopes are all returned: one method, two methods of a class, two classes
C12_SameMethodReached ==
    /\ callDone /\ callResult.scope = "SAME_METHOD"
    /\ callArgs.loc1.className = NameCl /\ callArgs.loc1.methodName = NameM1

C12_SameClassReached ==
    /\ callDone /\ callResult.scope = "SAME_CLASS"
    /\ callArgs.loc1.methodName = NameM1 /\ callArgs.loc2.methodName = NameM2

(***************************************************************************)
(* SpecScope: the fragment checker on files whose classes and methods      *)
(* differ, for the class and method a reported fragment is resolved to     *)
(***************************************************************************)
\* d e c a b d a b: a b on lines 2..3 and on line 4
StraddleSource ==
    SourceOf(Idents(<<<<CharD>>, <<CharE>>, <<CharC>>, <<CharA>>,
                      <<CharB>>, <<CharD>>, <<CharA>>, <<CharB>>>>))

\* Cl.m1 on lines 1..2 and Dm.m1 on lines 3..4
TwoClasses ==
    <<DefaultClass,
      [name |-> NameCl, methods |-> <<MethodOf(NameM1, 1, <<TextAssign>>)>>],
      [name |-> NameDm, methods |-> <<MethodOf(NameM1, 3, <<TextAssign>>)>>]>>

\* a top-level function m1 on lines 1..2 (a method of the default class) and
\* Cl.m2 on lines 3..4
FunctionAndClass ==
    <<[name |-> NameDefault,
       methods |-> <<MethodOf(NameDefault, 1, <<TextAssign>>),
                     MethodOf(NameM1, 1, <<TextAssign>>)>>],
      [name |-> NameCl, methods |-> <<MethodOf(NameM2, 3, <<TextAssign>>)>>]>>

\* Cl.m1 on lines 1..4 and Cl.m2 on lines 3..4
OverlappingMethods ==
    <<[name |-> NameCl,
       methods |-> <<MethodOf(NameM1, 1, <<TextAssign, TextAssign, TextAssign>>),
                     MethodOf(NameM2, 3, <<TextAssign>>)>>]>>

\* a class whose only method is its constructor, on lines 1..4
ConstructorOnly ==
    <<[name |-> NameCl,
       methods |-> <<MethodOf(ConstructorName, 1,
                              <<TextAssign, TextAssign, TextAssign>>)>>]>>

ScopeLayouts ==
    {FragmentClasses, TwoClasses, FunctionAndClass, OverlappingMethods, ConstructorOnly}

ScopeSources == {AlternateSource, ExampleSource, StraddleSource, RepeatSource(MaxRepeat)}

ScopeFiles ==
    {[filePath |-> f, source |-> src, classes |-> cls] :
        f \in CheckedFiles, src \in ScopeSources, cls \in ScopeLayouts}

ScopeRules ==
    {[alert |-> Configured("number", 1), hasOption |-> TRUE,
      option |-> [minimumTokens |-> Configured("number", n),
                  normalizeIdentifiers |-> Configured("undefined", FALSE),
                  normalizeLiterals |-> Configured("undefined", FALSE)]] :
        n \in 1..MaxMinimumTokens}

InitScope ==
    /\ HashIdle /\ WinIdle /\ IndexIdle /\ MergeIdle /\ CallIdle
    /\ registered = "fragment"
    /\ rule \in ScopeRules /\ FragmentConstructed
    /\ methodRule = UnsetMethodRule /\ MethodConstructed

NextScope ==
    \/ FragmentBeforeCheck
    \/ \E arkFile \in ScopeFiles : CollectTokens(arkFile)
    \/ FragmentAfterCheck

SpecScope == InitScope /\ [][NextScope]_vars

\* the last line of a method: its own line, or the largest line of a statement
LastLineOf(method) ==
    LET lines == {method.line} \cup
                 (IF method.hasBody
                  THEN {method.stmts[k].line : k \in 1..Len(method.stmts)} ELSE {})
    IN  CHOOSE l \in lines : \A x \in lines : x <= l

\* the <<class, method>> positions of a file, and their iteration order
MethodsOf(classes) ==
    UNION {{<<c, m>> : m \in 1..Len(classes[c].methods)} : c \in 1..Len(classes)}

ComesFirst(p, q) == p[1] < q[1] \/ (p[1] = q[1] /\ p[2] <= q[2])

\* which methods a fragment can be attributed to: all of them, or the ones that
\* are neither synthetic nor in a synthetic class nor a constructor
AnyMethod(class, method) == TRUE

NamedMethod(class, method) ==
    /\ ~startsWithPercent(class.name)
    /\ ~startsWithPercent(method.name)
    /\ method.name # ConstructorName

\* the first method that counts and whose lines contain startLine..endLine, as
\* <<position>>, or <<>> when there is none
FirstContaining(classes, startLine, endLine, Counts(_, _)) ==
    LET containing ==
            {p \in MethodsOf(classes) :
                LET method == classes[p[1]].methods[p[2]]
                IN  /\ Counts(classes[p[1]], method)
                    /\ startLine >= method.line
                    /\ endLine <= LastLineOf(method)}
    IN  IF containing = {} THEN <<>>
        ELSE <<CHOOSE p \in containing : \A q \in containing : ComesFirst(p, q)>>

\* the classes of the delivered file of that path
ClassesOfFile(file) ==
    delivered[CHOOSE d \in 1..Len(delivered) : delivered[d].filePath = file].classes

\* the scope of two fragments attributed to at1 in file1 and at2 in file2
ScopeOfAttribution(file1, at1, file2, at2) ==
    IF at1 # <<>> /\ at2 # <<>> /\ file1 = file2 /\ at1 = at2 THEN "SAME_METHOD"
    ELSE IF at1 # <<>> /\ at2 # <<>> /\ file1 = file2 /\ at1[1][1] = at2[1][1]
    THEN "SAME_CLASS"
    ELSE "DIFFERENT_CLASS"

\* the location carries the names of the method it is attributed to, or none
NamedAs(location, at) ==
    IF at = <<>>
    THEN location.className = Undefined /\ location.methodName = Undefined
    ELSE LET classes == ClassesOfFile(location.file)
         IN  /\ location.className = classes[at[1][1]].name
             /\ location.methodName = classes[at[1][1]].methods[at[1][2]].name

\* the report resolves both fragments to the first containing method that counts
\* and has the scope of that attribution
ReportFollows(report, Counts(_, _)) ==
    LET l1  == report.location1
        l2  == report.location2
        at1 == FirstContaining(ClassesOfFile(l1.file), l1.startLine, l1.endLine, Counts)
        at2 == FirstContaining(ClassesOfFile(l2.file), l2.startLine, l2.endLine, Counts)
    IN  /\ NamedAs(l1, at1)
        /\ NamedAs(l2, at2)
        /\ report.scope = ScopeOfAttribution(l1.file, at1, l2.file, at2)

\* C11 as stated: each fragment of a reported clone is attributed to the first
\* method, in class then method order, whose lines contain the fragment's lines,
\* and to none when there is no such method; the scope is SAME_METHOD for one
\* method, SAME_CLASS for two methods of one class, DIFFERENT_CLASS otherwise.
C11_FirstContainingMethod ==
    phase = "done" =>
        \A k \in 1..Len(issues) : ReportFollows(issues[k].description, AnyMethod)

\* what the checker does instead: each fragment of a reported clone is attributed
\* to the first method that is not a constructor, not synthetic and not in a synthetic class, in class then
\* method order, whose lines contain the fragment's lines, and to none when there
\* is no such method; the scope is SAME_METHOD for one method, SAME_CLASS for two
\* methods of one class, DIFFERENT_CLASS otherwise.
C11_FirstNamedMethod ==
    phase = "done" =>
        \A k \in 1..Len(issues) : ReportFollows(issues[k].description, NamedMethod)

\* a clone whose two fragments lie in the constructor of one class is reported
\* with neither class nor method and as DIFFERENT_CLASS
C11_Witness ==
    /\ phase = "done"
    /\ \E k \in 1..Len(issues) :
           LET report == issues[k].description
           IN  /\ report.location1.file = report.location2.file
               /\ ClassesOfFile(report.location1.file) = ConstructorOnly
               /\ report.location1.endLine <= 4 /\ report.location2.endLine <= 4
               /\ report.location1.className = Undefined
               /\ report.scope = "DIFFERENT_CLASS"

\* one method; two methods of one class; two classes; a class and a top-level
\* function; a fragment that no method contains; the first of two containing
\* methods
C11_SameMethodReached ==
    /\ phase = "done"
    /\ \E k \in 1..Len(issues) :
           /\ issues[k].description.scope = "SAME_METHOD"
           /\ issues[k].description.location1.startLine
                  # issues[k].description.location2.startLine

C11_SameClassReached ==
    /\ phase = "done"
    /\ \E k \in 1..Len(issues) :
           /\ issues[k].description.scope = "SAME_CLASS"
           /\ issues[k].description.location1.methodName = NameM1
           /\ issues[k].description.location2.methodName = NameM2

C11_TwoClassesReached ==
    /\ phase = "done"
    /\ \E k \in 1..Len(issues) :
           /\ issues[k].description.scope = "DIFFERENT_CLASS"
           /\ issues[k].description.location1.file = issues[k].description.location2.file
           /\ issues[k].description.location1.className = NameCl
           /\ issues[k].description.location2.className = NameDm

C11_FunctionAndClassReached ==
    /\ phase = "done"
    /\ \E k \in 1..Len(issues) :
           /\ ClassesOfFile(issues[k].description.location1.file) = FunctionAndClass
           /\ issues[k].description.location1.file = issues[k].description.location2.file
           /\ issues[k].description.scope = "DIFFERENT_CLASS"
           /\ issues[k].description.location1.className = Undefined
           /\ issues[k].description.location2.className = NameCl

C11_OutsideMethodsReached ==
    /\ phase = "done"
    /\ \E k \in 1..Len(issues) :
           /\ ClassesOfFile(issues[k].description.location1.file) = TwoClasses
           /\ issues[k].description.location1.startLine = 2
           /\ issues[k].description.location1.endLine = 3
           /\ issues[k].description.location1.className = Undefined

C11_FirstOfTwoReached ==
    /\ phase = "done"
    /\ \E k \in 1..Len(issues) :
           /\ ClassesOfFile(issues[k].description.location1.file) = OverlappingMethods
           /\ issues[k].description.location2.startLine >= 3
           /\ issues[k].description.location2.methodName = NameM1

(***************************************************************************)
(* SpecMethodPairs: the method checker on files whose classes hold several *)
(* copies of one method                                                    *)
(***************************************************************************)
\* Cl.m1 and Cl.m2 with the same body
TwoCopiesInClass ==
    <<DefaultClass,
      [name |-> NameCl,
       methods |-> <<MethodOf(NameM1, 1, <<TextAssign>>),
                     MethodOf(NameM2, 5, <<TextAssign>>)>>]>>

\* Cl.m1 and Dm.m1 with the same body
SameNameInTwoClasses ==
    <<DefaultClass,
      [name |-> NameCl, methods |-> <<MethodOf(NameM1, 1, <<TextAssign>>)>>],
      [name |-> NameDm, methods |-> <<MethodOf(NameM1, 5, <<TextAssign>>)>>]>>

\* Cl.m1 with that body and Cl.m2 with another
OneCopyInClass ==
    <<[name |-> NameCl,
       methods |-> <<MethodOf(NameM1, 1, <<TextAssign>>),
                     MethodOf(NameM2, 5, <<TextTemp1>>)>>]>>

\* Cl.m1, Cl.m2 and Cl.m3 with the same body
ThreeCopiesInClass ==
    <<[name |-> NameCl,
       methods |-> <<MethodOf(NameM1, 1, <<TextAssign>>),
                     MethodOf(NameM2, 5, <<TextAssign>>),
                     MethodOf(NameM3, 9, <<TextAssign>>)>>]>>

PairFiles ==
    {[filePath |-> f, source |-> Unreadable, classes |-> cls] :
        f \in CheckedFiles,
        cls \in {TwoCopiesInClass, SameNameInTwoClasses, OneCopyInClass,
                 ThreeCopiesInClass}}

InitMethodPairs ==
    /\ HashIdle /\ WinIdle /\ IndexIdle /\ MergeIdle /\ CallIdle
    /\ registered = "method"
    /\ rule = UnsetFragmentRule /\ FragmentConstructed
    /\ methodRule \in MethodRules /\ MethodConstructed

NextMethodPairs ==
    \/ MethodBeforeCheck
    \/ \E arkFile \in PairFiles : CollectMethods(arkFile)
    \/ MethodAfterCheck

SpecMethodPairs == InitMethodPairs /\ [][NextMethodPairs]_vars

\* the methods of a delivered file that are eligible under the rule, as their
\* MethodInfo: not skipped, with statements left after filtering, and at least
\* minStmts of them
EligibleInfos(arkFile) ==
    {extractMethodInfo(methodRule, arkFile.classes[p[1]].methods[p[2]],
                       arkFile.filePath, arkFile.classes[p[1]].name)[1] :
        p \in {q \in MethodsOf(arkFile.classes) :
                 LET class  == arkFile.classes[q[1]]
                     method == class.methods[q[2]]
                     info   == extractMethodInfo(methodRule, method, arkFile.filePath,
                                                 class.name)
                 IN  /\ ~startsWithPercent(class.name)
                     /\ ~startsWithPercent(method.name)
                     /\ method.name # ConstructorName
                     /\ info # <<>>
                     /\ info[1].stmtCount >= getMinStmts(methodRule)}}

EligibleDelivered ==
    UNION {EligibleInfos(methodDelivered[d]) : d \in 1..Len(methodDelivered)}

\* the issues that report the pair of x and y, in either order
IssuesOfPair(x, y) ==
    {k \in 1..Len(methodIssues) :
        {methodIssues[k].description.method, methodIssues[k].description.cloneWith}
            = {x, y}}

\* C13: after afterCheck every unordered pair of distinct eligible methods with the
\* same hash has exactly one issue, whatever the order of collection, and every
\* issue is the issue of such a pair.
C13_EveryPairOnce ==
    methodPhase = "done" =>
        /\ \A x, y \in EligibleDelivered :
               (x # y /\ x.hash = y.hash) => Cardinality(IssuesOfPair(x, y)) = 1
        /\ \A k \in 1..Len(methodIssues) :
               /\ methodIssues[k].description.method \in EligibleDelivered
               /\ methodIssues[k].description.cloneWith \in EligibleDelivered
               /\ methodIssues[k].description.method
                      # methodIssues[k].description.cloneWith

\* three copies in one class of one file: three issues
C13_ThreePairsReported ==
    /\ methodPhase = "done"
    /\ Len(methodDelivered) = 1
    /\ methodDelivered[1].classes = ThreeCopiesInClass
    /\ Len(methodIssues) = 3

\* copies of a method of the same name in two classes of a.ets and one more copy
\* in b.ets, with fewer issues than pairs
C13_PairLost ==
    /\ methodPhase = "done"
    /\ Len(methodDelivered) = 2
    /\ \E d \in 1..2 : methodDelivered[d].classes = SameNameInTwoClasses
    /\ \E d \in 1..2 : methodDelivered[d].classes = OneCopyInClass
    /\ Cardinality({x \in EligibleDelivered : x.methodName = NameM1}) = 3
    /\ \A x, y \in EligibleDelivered :
           (x.methodName = NameM1 /\ y.methodName = NameM1) => x.hash = y.hash
    /\ Len(methodIssues) = 2

(***************************************************************************)
(* SpecMethod: the method checker over any number of runs                  *)
(***************************************************************************)
SpecMethod == InitMethod /\ [][NextMethod]_vars

\* the statements of a method that count under the rule: without the pure log
\* statements when ignoreLogs is in effect
CountedStmts(method) ==
    IF getIgnoreLogs(methodRule)
    THEN SelectSeq(method.stmts, LAMBDA s : ~isLogStatement(s))
    ELSE method.stmts

\* the method is one the checker must leave out
LeftOut(class, method) ==
    \/ startsWithPercent(class.name)
    \/ startsWithPercent(method.name)
    \/ method.name = ConstructorName
    \/ ~method.hasBody
    \/ Len(CountedStmts(method)) = 0
    \/ Len(CountedStmts(method)) < getMinStmts(methodRule)

\* info is the MethodInfo of that method of that file
IsInfoOf(info, arkFile, class, method) ==
    /\ info.filePath = arkFile.filePath
    /\ info.className = class.name
    /\ info.methodName = method.name

\* C14: a method with fewer than minStmts statements after log filtering, without a
\* body or without a statement left, a constructor, a '%' method or a method of a
\* '%' class is in no group of methodsByHash and in no issue, as the reported
\* method or as its partner, whatever copies of it exist.
C14_LeftOutNeverReported ==
    \A d \in 1..Len(methodDelivered) :
        \A p \in MethodsOf(methodDelivered[d].classes) :
            LET arkFile == methodDelivered[d]
                class   == arkFile.classes[p[1]]
                method  == class.methods[p[2]]
            IN  LeftOut(class, method) =>
                    /\ \A g \in 1..Len(methodsByHash) :
                           \A i \in 1..Len(methodsByHash[g].value) :
                               ~IsInfoOf(methodsByHash[g].value[i], arkFile, class, method)
                    /\ \A k \in 1..Len(methodIssues) :
                           /\ ~IsInfoOf(methodIssues[k].description.method,
                                        arkFile, class, method)
                           /\ ~IsInfoOf(methodIssues[k].description.cloneWith,
                                        arkFile, class, method)

\* two files whose m2, constructor and default method all have the body a = 1:
\* the copies in m2 are reported, with minStmts 1
C14_Witness ==
    /\ methodPhase = "done"
    /\ Len(methodDelivered) = 2
    /\ getMinStmts(methodRule) = 1
    /\ Len(methodIssues) >= 1

\* two files whose m1 is console.log(a); a = 1, with minStmts 2 and logs ignored:
\* one statement is left, and the two copies are not grouped
C14_BelowMinStmtsReached ==
    /\ methodPhase = "done"
    /\ Len(methodDelivered) = 2
    /\ getMinStmts(methodRule) = 2 /\ getIgnoreLogs(methodRule)
    /\ \A d \in 1..2 : methodDelivered[d].classes = MethodClasses(<<TextLog, TextAssign>>)
    /\ methodsByHash = <<>> /\ methodIssues = <<>>

\* the same two files with the logs counted: the copies are reported
C14_LogsCountedReached ==
    /\ methodPhase = "done"
    /\ Len(methodDelivered) = 2
    /\ getMinStmts(methodRule) = 2 /\ ~getIgnoreLogs(methodRule)
    /\ \A d \in 1..2 : methodDelivered[d].classes = MethodClasses(<<TextLog, TextAssign>>)
    /\ Len(methodIssues) = 1

(***************************************************************************)
(* Type-2: the statement-text normalizer of utils.ts and computeHash        *)
(***************************************************************************)
ToUpper(c) == IF c >= 97 /\ c <= 122 THEN c - 32 ELSE c

\* the entries of TYPE2_KEYWORDS, spelled as the source spells them
TYPE2_KEYWORDS ==
    {
     <<108, 101, 116>>,
     <<99, 111, 110, 115, 116>>,
     <<118, 97, 114>>,
     <<102, 117, 110, 99, 116, 105, 111, 110>>,
     <<114, 101, 116, 117, 114, 110>>,
     <<105, 102>>,
     <<101, 108, 115, 101>>,
     <<102, 111, 114>>,
     <<119, 104, 105, 108, 101>>,
     <<116, 114, 117, 101>>,
     <<102, 97, 108, 115, 101>>,
     <<110, 117, 108, 108>>,
     <<117, 110, 100, 101, 102, 105, 110, 101, 100>>,
     <<116, 104, 105, 115>>,
     <<110, 101, 119>>,
     <<99, 108, 97, 115, 115>>,
     <<101, 120, 116, 101, 110, 100, 115>>,
     <<110, 117, 109, 98, 101, 114>>,
     <<115, 116, 114, 105, 110, 103>>,
     <<98, 111, 111, 108, 101, 97, 110>>,
     <<118, 111, 105, 100>>,
     <<97, 110, 121>>,
     <<111, 98, 106, 101, 99, 116>>,
     <<108, 101, 110, 103, 116, 104>>,
     <<112, 117, 115, 104>>,
     <<112, 111, 112>>,
     <<109, 97, 112>>,
     <<102, 105, 108, 116, 101, 114>>,
     <<102, 111, 114, 69, 97, 99, 104>>,
     <<105, 110, 100, 101, 120, 79, 102>>,
     <<99, 111, 110, 115, 111, 108, 101>>,
     <<108, 111, 103>>,
     <<116, 111, 70, 105, 120, 101, 100>>,
     <<116, 114, 105, 109>>,
     <<116, 111, 83, 116, 114, 105, 110, 103>>,
     <<112, 97, 114, 97, 109, 101, 116, 101, 114, 48>>,
     <<112, 97, 114, 97, 109, 101, 116, 101, 114, 49>>,
     <<112, 97, 114, 97, 109, 101, 116, 101, 114, 50>>}

\* the callback of text.replace in normalizeIdentifiers on one match: the returned
\* text and the identifierMap after the call
replaceIdentifier(match, identifierMap) ==
    IF [k \in 1..Len(match) |-> ToLower(match[k])] \in TYPE2_KEYWORDS \/ Len(match) <= 1
    THEN [value |-> match, map |-> identifierMap]
    ELSE IF match = [k \in 1..Len(match) |-> ToUpper(match[k])] /\ Len(match) > 1
    THEN [value |-> match, map |-> identifierMap]
    ELSE IF MapPos(identifierMap, match, 1) # 0
    THEN [value |-> identifierMap[MapPos(identifierMap, match, 1)].value,
          map |-> identifierMap]
    ELSE LET normalized == StrID_ \o Decimal(Len(identifierMap) + 1)
         IN  [value |-> normalized, map |-> MapSet(identifierMap, match, normalized)]

\* text.replace(/\b([a-zA-Z_][a-zA-Z0-9_]*)\b/g, callback) from position k on
RECURSIVE ReplaceIdentifiers(_, _, _, _)
ReplaceIdentifiers(text, k, out, identifierMap) ==
    IF k > Len(text) THEN [text |-> out, map |-> identifierMap]
    ELSE IF /\ IsLetter(text[k]) \/ text[k] = 95
            /\ k = 1 \/ ~IsWord(text[k - 1])
    THEN LET e == RunEndWord(text, k)
             r == replaceIdentifier(SubSeq(text, k, e), identifierMap)
         IN  ReplaceIdentifiers(text, e + 1, out \o r.value, r.map)
    ELSE ReplaceIdentifiers(text, k + 1, Append(out, text[k]), identifierMap)

\* normalizeIdentifiers of utils.ts: the returned text and the identifierMap it leaves
normalizeIdentifiers(text, identifierMap) == ReplaceIdentifiers(text, 1, <<>>, identifierMap)

\* no word character at position k: the right side of a \b that follows a word character
NonWordAt(text, k) == k > Len(text) \/ ~IsWord(text[k])

\* ([eE][+-]?\d+)?\b tried at position s: the last position of the exponent, 0 when
\* it does not match there
ExponentEnd(text, s) ==
    IF s > Len(text) \/ text[s] \notin {69, 101} THEN 0
    ELSE LET t == IF s + 1 <= Len(text) /\ text[s + 1] \in {43, 45} THEN s + 2 ELSE s + 1
             r == RunEndDigit(text, t)
         IN  IF r >= t /\ NonWordAt(text, r + 1) THEN r ELSE 0

\* /\b\d+\.?\d*([eE][+-]?\d+)?\b/ tried at position k: the last position of the match
\* the regular expression engine settles on, 0 when there is none
NumberEnd(text, k) ==
    IF ~IsDigit(text[k]) \/ (k > 1 /\ IsWord(text[k - 1])) THEN 0
    ELSE LET p == RunEndDigit(text, k)
         IN  IF p + 1 <= Len(text) /\ text[p + 1] = 46
             THEN LET q == RunEndDigit(text, p + 2)
                  IN  IF ExponentEnd(text, q + 1) # 0 THEN ExponentEnd(text, q + 1)
                      ELSE IF q > p + 1
                      THEN (IF NonWordAt(text, q + 1) THEN q ELSE p + 1)
                      ELSE IF ~NonWordAt(text, p + 2) THEN p + 1
                      ELSE p
             ELSE IF ExponentEnd(text, p + 1) # 0 THEN ExponentEnd(text, p + 1)
             ELSE IF NonWordAt(text, p + 1) THEN p
             ELSE 0

RECURSIVE ReplaceNumbers(_, _, _)
ReplaceNumbers(text, k, out) ==
    IF k > Len(text) THEN out
    ELSE IF NumberEnd(text, k) # 0
    THEN ReplaceNumbers(text, NumberEnd(text, k) + 1, out \o StrNUM)
    ELSE ReplaceNumbers(text, k + 1, Append(out, text[k]))

\* [0-9a-fA-F]
IsHexDigit(c) == IsDigit(c) \/ (c >= 65 /\ c <= 70) \/ (c >= 97 /\ c <= 102)

RECURSIVE RunEndHex(_, _)
RunEndHex(text, k) ==
    IF k <= Len(text) /\ IsHexDigit(text[k]) THEN RunEndHex(text, k + 1) ELSE k - 1

\* /\b0x[0-9a-fA-F]+\b/ tried at position k: the last position of the match, 0 when none
HexEnd(text, k) ==
    IF \/ k > 1 /\ IsWord(text[k - 1])
       \/ ~HasAt(text, k, <<48, 120>>)
    THEN 0
    ELSE LET h == RunEndHex(text, k + 2)
         IN  IF h >= k + 2 /\ NonWordAt(text, h + 1) THEN h ELSE 0

RECURSIVE ReplaceHex(_, _, _)
ReplaceHex(text, k, out) ==
    IF k > Len(text) THEN out
    ELSE IF HexEnd(text, k) # 0
    THEN ReplaceHex(text, HexEnd(text, k) + 1, out \o StrNUM)
    ELSE ReplaceHex(text, k + 1, Append(out, text[k]))

\* the position of the first quote character from k on, 0 when there is none
RECURSIVE NextQuote(_, _, _)
NextQuote(text, k, quote) ==
    IF k > Len(text) THEN 0
    ELSE IF text[k] = quote THEN k ELSE NextQuote(text, k + 1, quote)

\* text.replace(/"[^"]*"/g, 'STR') and text.replace(/'[^']*'/g, 'STR')
RECURSIVE ReplaceQuoted(_, _, _, _)
ReplaceQuoted(text, k, out, quote) ==
    IF k > Len(text) THEN out
    ELSE IF text[k] = quote /\ NextQuote(text, k + 1, quote) # 0
    THEN ReplaceQuoted(text, NextQuote(text, k + 1, quote) + 1, out \o StrSTR, quote)
    ELSE ReplaceQuoted(text, k + 1, Append(out, text[k]), quote)

\* a normalizeLiterals that replaces the quoted strings only
normalizeLiteralsStringsOnly(text) ==
    ReplaceQuoted(ReplaceQuoted(text, 1, <<>>, 34), 1, <<>>, 39)

\* normalizeLiterals of utils.ts
normalizeLiterals(text) ==
    LET t1 == ReplaceNumbers(text, 1, <<>>)
        t2 == ReplaceHex(t1, 1, <<>>)
        t3 == ReplaceQuoted(t2, 1, <<>>, 34)
    IN  ReplaceQuoted(t3, 1, <<>>, 39)

\* the loop of CodeCloneType2Check.computeHash from statement k on: one identifierMap
\* for the whole method
RECURSIVE Type2_normalizedStmts(_, _, _, _, _)
Type2_normalizedStmts(ignoreLiterals, stmts, k, normalizedStmts, identifierMap) ==
    IF k > Len(stmts) THEN normalizedStmts
    ELSE LET basic == normalizeBasic(stmts[k].text)
             ids   == normalizeIdentifiers(basic, identifierMap)
             text  == IF ignoreLiterals THEN normalizeLiterals(ids.text) ELSE ids.text
         IN  Type2_normalizedStmts(ignoreLiterals, stmts, k + 1,
                                   Append(normalizedStmts, text), ids.map)

\* what computeHash hands to simpleHash
Type2_combined(ignoreLiterals, stmts) ==
    Join(Type2_normalizedStmts(ignoreLiterals, stmts, 1, <<>>, <<>>), <<CharBar>>)

\* CodeCloneType2Check.computeHash, ignoreLiterals being what getIgnoreLiterals returns
Type2_computeHash(ignoreLiterals, stmts) ==
    djb2HashUtils(Type2_combined(ignoreLiterals, stmts))

(***************************************************************************)
(* Type-2 normalization of pairs of method bodies                           *)
(***************************************************************************)
\* "total", "item", "ab", "Map", "a", "MAX": names the normalizer replaces, a name
\* that is a reserved word but for its capital, a single letter and a name in capitals
NameTotal     == <<116, 111, 116, 97, 108>>
NameItem      == <<105, 116, 101, 109>>
NameAb        == <<97, 98>>
NameMap       == <<77, 97, 112>>
NameA         == <<97>>
NameMAX       == <<77, 65, 88>>

Type2Names == {NameTotal, NameItem, NameAb, NameMap, NameA, NameMAX}

\* "+", "*", "-"
OpPlus        == <<43>>
OpTimes       == <<42>>
OpMinus       == <<45>>

Type2Operators == {OpPlus, OpTimes, OpMinus}

\* 0, 7, 30, 1.5, 1e5, 0xF
NumericLiterals ==
    {<<48>>, <<55>>, <<51, 48>>, <<49, 46, 53>>, <<49, 101, 53>>, <<48, 120, 70>>}

\* 'ab', 'cd', "ab", 'a', 'ab cd', '7'
StringLiterals ==
    {<<39, 97, 98, 39>>,
     <<39, 99, 100, 39>>,
     <<34, 97, 98, 34>>,
     <<39, 97, 39>>,
     <<39, 97, 98, 32, 99, 100, 39>>,
     <<39, 55, 39>>}

\* "let ", " = ", " ", "return "
StrLet        == <<108, 101, 116, 32>>
StrAssign     == <<32, 61, 32>>
StrSpace      == <<32>>
StrReturn     == <<114, 101, 116, 117, 114, 110, 32>>

\* the statements  let x = lit / x = x op y / return x
BodyOf(x, y, op, lit) ==
    <<StrLet \o x \o StrAssign \o lit,
      x \o StrAssign \o x \o StrSpace \o op \o StrSpace \o y,
      StrReturn \o x>>

ToLowerCase(str) == [k \in 1..Len(str) |-> ToLower(str[k])]

ToUpperCase(str) == [k \in 1..Len(str) |-> ToUpper(str[k])]

\* a name is reserved when it is a reserved word, compared without regard to case
Reserved(name) == \E keyword \in TYPE2_KEYWORDS : ToLowerCase(keyword) = ToLowerCase(name)

\* the identifiers subject to normalization: length at least 2, not reserved, not
\* all-uppercase
SubjectToNormalization(name) ==
    Len(name) >= 2 /\ ~Reserved(name) /\ name # ToUpperCase(name)

\* the one-to-one renamings of the names: the names that are not subject to
\* normalization stay as they are
Renamings ==
    {sigma \in [Type2Names -> Type2Names] :
        /\ \A n1, n2 \in Type2Names : sigma[n1] = sigma[n2] => n1 = n2
        /\ \A n \in Type2Names : ~SubjectToNormalization(n) => sigma[n] = n}

\* pairs of bodies that differ by a renaming, in one operator, in one numeric literal,
\* in one string literal; literal is the literal of the first body
Type2Pairs ==
    {[kind |-> "renamed", first |-> BodyOf(x, y, OpPlus, lit),
      second |-> BodyOf(sigma[x], sigma[y], OpPlus, lit), literal |-> lit,
      ignoreLiterals |-> b] :
        x \in Type2Names, y \in Type2Names, sigma \in Renamings,
        lit \in {<<55>>, <<39, 97, 98, 39>>}, b \in BOOLEAN}
    \cup
    {[kind |-> "operator", first |-> BodyOf(x, y, ops[1], <<55>>),
      second |-> BodyOf(x, y, ops[2], <<55>>), literal |-> <<55>>,
      ignoreLiterals |-> b] :
        x \in Type2Names, y \in Type2Names,
        ops \in {o \in Type2Operators \X Type2Operators : o[1] # o[2]}, b \in BOOLEAN}
    \cup
    {[kind |-> "number", first |-> BodyOf(x, NameItem, OpPlus, lits[1]),
      second |-> BodyOf(x, NameItem, OpPlus, lits[2]), literal |-> lits[1],
      ignoreLiterals |-> b] :
        x \in Type2Names,
        lits \in {l \in NumericLiterals \X NumericLiterals : l[1] # l[2]}, b \in BOOLEAN}
    \cup
    {[kind |-> "string", first |-> BodyOf(x, NameItem, OpPlus, lits[1]),
      second |-> BodyOf(x, NameItem, OpPlus, lits[2]), literal |-> lits[1],
      ignoreLiterals |-> b] :
        x \in Type2Names,
        lits \in {l \in StringLiterals \X StringLiterals : l[1] # l[2]}, b \in BOOLEAN}

\* the statements of a method whose statements print as the texts
StmtsOf(texts) == [k \in 1..Len(texts) |-> [text |-> texts[k], line |-> k]]

InitType2 ==
    /\ HashIdle /\ WinIdle /\ IndexIdle /\ MergeIdle
    /\ registered = "none"
    /\ rule = UnsetFragmentRule /\ FragmentConstructed
    /\ methodRule = UnsetMethodRule /\ MethodConstructed
    /\ callArgs \in Type2Pairs
    /\ callResult = <<>> /\ callDone = FALSE

\* computeHash of the Type-2 checker on both bodies of the pair
ApplyType2 ==
    /\ ~callDone
    /\ callDone' = TRUE
    /\ callResult' =
          [text1 |-> Type2_combined(callArgs.ignoreLiterals, StmtsOf(callArgs.first)),
           text2 |-> Type2_combined(callArgs.ignoreLiterals, StmtsOf(callArgs.second)),
           hash1 |-> Type2_computeHash(callArgs.ignoreLiterals, StmtsOf(callArgs.first)),
           hash2 |-> Type2_computeHash(callArgs.ignoreLiterals, StmtsOf(callArgs.second))]
    /\ UNCHANGED <<callArgs, hashVars, winVars, indexVars, mergeVars, registered,
                   fragVars, methodVars>>

NextType2 == ApplyType2

SpecType2 == InitType2 /\ [][NextType2]_vars

\* C15: Type-2 normalization gives an identifier the same placeholder everywhere in a
\* method and numbers the placeholders by first occurrence, so two bodies that differ
\* only by a one-to-one renaming of identifiers subject to normalization (length at
\* least 2, not reserved, not all-uppercase) get the same normalized text and the same
\* hash, and two bodies that differ only in one operator get different normalized texts
C15_RenamingInvariant ==
    callDone =>
        /\ callArgs.kind = "renamed" =>
              /\ callResult.text1 = callResult.text2
              /\ callResult.hash1 = callResult.hash2
        /\ callArgs.kind = "operator" => callResult.text1 # callResult.text2

\* what the checker does instead: the renaming leaves text and hash alone as long as
\* no string literal of the body holds a word, and one operator changes the text
C15_RenamingWithoutWordsInStrings ==
    callDone =>
        /\ callArgs.kind = "renamed" /\ callArgs.literal \in NumericLiterals =>
              /\ callResult.text1 = callResult.text2
              /\ callResult.hash1 = callResult.hash2
        /\ callArgs.kind = "operator" => callResult.text1 # callResult.text2

\* ab is renamed to item while the string 'ab' stays: the word in the string takes the
\* placeholder of ab in one body and a placeholder of its own in the other
C15_Witness ==
    /\ callDone /\ callArgs.kind = "renamed" /\ ~callArgs.ignoreLiterals
    /\ callArgs.first = BodyOf(NameA, NameAb, OpPlus, <<39, 97, 98, 39>>)
    /\ callArgs.second = BodyOf(NameA, NameItem, OpPlus, <<39, 97, 98, 39>>)
    /\ callResult.text1 # callResult.text2
    /\ callResult.hash1 # callResult.hash2

\* total and item renamed to item and ab: one text, one hash
C15_RenamedReached ==
    /\ callDone /\ callArgs.kind = "renamed"
    /\ callArgs.first = BodyOf(NameTotal, NameItem, OpPlus, <<55>>)
    /\ callArgs.second = BodyOf(NameItem, NameAb, OpPlus, <<55>>)
    /\ callResult.text1 = callResult.text2
    /\ callResult.hash1 = callResult.hash2

\* x = x + y against x = x * y
C15_OperatorReached ==
    /\ callDone /\ callArgs.kind = "operator"
    /\ callArgs.first = BodyOf(NameTotal, NameItem, OpPlus, <<55>>)
    /\ callArgs.second = BodyOf(NameTotal, NameItem, OpTimes, <<55>>)
    /\ callResult.hash1 # callResult.hash2

\* C16: with ignoreLiterals true, two bodies that differ only in numeric literals get
\* the same normalized text and the same hash; with ignoreLiterals false they get
\* different normalized texts and different hashes
C16_NumericLiterals ==
    callDone /\ callArgs.kind = "number" =>
        /\ callArgs.ignoreLiterals =>
              /\ callResult.text1 = callResult.text2
              /\ callResult.hash1 = callResult.hash2
        /\ ~callArgs.ignoreLiterals =>
              /\ callResult.text1 # callResult.text2
              /\ callResult.hash1 # callResult.hash2

\* let total = 30 against let total = 1.5 with ignoreLiterals true: both read NUM
C16_Witness ==
    /\ callDone /\ callArgs.kind = "number" /\ callArgs.ignoreLiterals
    /\ callArgs.first = BodyOf(NameTotal, NameItem, OpPlus, <<51, 48>>)
    /\ callArgs.second = BodyOf(NameTotal, NameItem, OpPlus, <<49, 46, 53>>)
    /\ callResult.text1 = StrLet \o StrID_ \o <<49>> \o StrAssign \o StrNUM
                          \o <<CharBar>> \o StrID_ \o <<49>> \o StrAssign \o StrID_ \o <<49>>
                          \o StrSpace \o OpPlus \o StrSpace \o StrID_ \o <<50>>
                          \o <<CharBar>> \o StrReturn \o StrID_ \o <<49>>
    /\ callResult.hash1 = callResult.hash2

\* the same bodies with ignoreLiterals false
C16_KeptReached ==
    /\ callDone /\ callArgs.kind = "number" /\ ~callArgs.ignoreLiterals
    /\ callArgs.first = BodyOf(NameTotal, NameItem, OpPlus, <<51, 48>>)
    /\ callArgs.second = BodyOf(NameTotal, NameItem, OpPlus, <<49, 46, 53>>)
    /\ callResult.hash1 # callResult.hash2

\* C17: with ignoreLiterals true, two bodies that differ only in string literals get
\* the same normalized text and the same hash; with ignoreLiterals false they get
\* different normalized texts and different hashes
C17_StringLiterals ==
    callDone /\ callArgs.kind = "string" =>
        /\ callArgs.ignoreLiterals =>
              /\ callResult.text1 = callResult.text2
              /\ callResult.hash1 = callResult.hash2
        /\ ~callArgs.ignoreLiterals =>
              /\ callResult.text1 # callResult.text2
              /\ callResult.hash1 # callResult.hash2

\* let total = 'ab' against let total = 'cd' with ignoreLiterals false: both read
\* let ID_1 = 'ID_2' and the hashes agree
C17_Witness ==
    /\ callDone /\ callArgs.kind = "string" /\ ~callArgs.ignoreLiterals
    /\ callArgs.first = BodyOf(NameTotal, NameItem, OpPlus, <<39, 97, 98, 39>>)
    /\ callArgs.second = BodyOf(NameTotal, NameItem, OpPlus, <<39, 99, 100, 39>>)
    /\ callResult.text1 = callResult.text2
    /\ callResult.hash1 = callResult.hash2

\* the same bodies with ignoreLiterals true: both read let ID_1 = STR
C17_IgnoredReached ==
    /\ callDone /\ callArgs.kind = "string" /\ callArgs.ignoreLiterals
    /\ callArgs.first = BodyOf(NameTotal, NameItem, OpPlus, <<39, 97, 98, 39>>)
    /\ callArgs.second = BodyOf(NameTotal, NameItem, OpPlus, <<39, 99, 100, 39>>)
    /\ callResult.hash1 = callResult.hash2

\* 'ab' against 'a' with ignoreLiterals false: the single letter is kept
C17_KeptReached ==
    /\ callDone /\ callArgs.kind = "string" /\ ~callArgs.ignoreLiterals
    /\ callArgs.first = BodyOf(NameTotal, NameItem, OpPlus, <<39, 97, 98, 39>>)
    /\ callArgs.second = BodyOf(NameTotal, NameItem, OpPlus, <<39, 97, 39>>)
    /\ callResult.hash1 # callResult.hash2

\* let a = '7' against let a = "ab" with ignoreLiterals true: the word in the string
\* takes ID_1, so item reads ID_1 in one body and ID_2 in the other
C17_ShiftedReached ==
    /\ callDone /\ callArgs.kind = "string" /\ callArgs.ignoreLiterals
    /\ callArgs.first = BodyOf(NameA, NameItem, OpPlus, <<39, 55, 39>>)
    /\ callArgs.second = BodyOf(NameA, NameItem, OpPlus, <<34, 97, 98, 34>>)
    /\ callResult.text1 # callResult.text2
    /\ callResult.hash1 # callResult.hash2

(***************************************************************************)
(* Pure log statements and statements that embed a logging call             *)
(***************************************************************************)
\* console.log, console.error, hilog.info, Logger.debug
LoggerCalls ==
    {<<99, 111, 110, 115, 111, 108, 101, 46, 108, 111, 103>>,
     <<99, 111, 110, 115, 111, 108, 101, 46, 101, 114, 114, 111, 114>>,
     <<104, 105, 108, 111, 103, 46, 105, 110, 102, 111>>,
     <<76, 111, 103, 103, 101, 114, 46, 100, 101, 98, 117, 103>>}

\* the arguments of the logging call: a, "ok"
LogArguments == {<<97>>, <<34, 111, 107, 34>>}

\* the other code of the statement: validate(), save(b), done
OtherCode ==
    {<<118, 97, 108, 105, 100, 97, 116, 101, 40, 41>>,
     <<115, 97, 118, 101, 40, 98, 41>>,
     <<100, 111, 110, 101>>}

\* " && ", " || ", "let result = ", "if (debug) "
StrAnd        == <<32, 38, 38, 32>>
StrOr         == <<32, 124, 124, 32>>
StrLetResult  == <<108, 101, 116, 32, 114, 101, 115, 117, 108, 116, 32, 61, 32>>
StrIfDebug    == <<105, 102, 32, 40, 100, 101, 98, 117, 103, 41, 32>>

\* logger(argument)
LogCallOf(logger, argument) == logger \o <<40>> \o argument \o <<41>>

\* how a statement holds its logging call: alone, or with other code
LogShapes ==
    {"pure", "codeAndLog", "logAndCode", "codeOrLog", "logOrCode", "assigned",
     "assignedOr", "condition"}

\* the text of the statement of a shape
LogStatementText(shape, logger, argument, other) ==
    LET call == LogCallOf(logger, argument)
    IN  CASE shape = "pure"       -> call
          [] shape = "codeAndLog" -> other \o StrAnd \o call
          [] shape = "logAndCode" -> call \o StrAnd \o other
          [] shape = "codeOrLog"  -> other \o StrOr \o call
          [] shape = "logOrCode"  -> call \o StrOr \o other
          [] shape = "assigned"   -> StrLetResult \o other \o StrAnd \o call
          [] shape = "assignedOr" -> StrLetResult \o call \o StrOr \o other
          [] shape = "condition"  -> StrIfDebug \o call

\* the method whose body is the statement followed by a = 1
LogMethodOf(text) == MethodOf(NameM1, 5, <<text, TextAssign>>)

InitLogStatement ==
    /\ HashIdle /\ WinIdle /\ IndexIdle /\ MergeIdle
    /\ registered = "none"
    /\ rule = UnsetFragmentRule /\ FragmentConstructed
    /\ methodRule = UnsetMethodRule /\ MethodConstructed
    /\ callArgs \in [shape : LogShapes, logger : LoggerCalls, argument : LogArguments,
                     other : OtherCode]
    /\ callResult = <<>> /\ callDone = FALSE

\* isLogStatement on the statement, and extractMethodInfo on a method that holds it,
\* under the default rule (ignoreLogs true)
ApplyLogStatement ==
    /\ ~callDone
    /\ callDone' = TRUE
    /\ LET text == LogStatementText(callArgs.shape, callArgs.logger, callArgs.argument,
                                    callArgs.other)
           info == extractMethodInfo(methodRule, LogMethodOf(text), "a.ets", NameCl)
       IN  callResult' = [text      |-> text,
                          isLog     |-> isLogStatement([text |-> text, line |-> 6]),
                          stmtCount |-> info[1].stmtCount,
                          hash      |-> info[1].hash]
    /\ UNCHANGED <<callArgs, hashVars, winVars, indexVars, mergeVars, registered,
                   fragVars, methodVars>>

NextLogStatement == ApplyLogStatement

SpecLogStatement == InitLogStatement /\ [][NextLogStatement]_vars

\* the statement is filtered: the method counts one statement and hashes a = 1 alone
Filtered ==
    /\ callResult.isLog
    /\ callResult.stmtCount = 1
    /\ callResult.hash = Type1_computeHash(<<[text |-> TextAssign, line |-> 7]>>)

\* the statement is kept: the method counts two statements and hashes both
Kept ==
    /\ ~callResult.isLog
    /\ callResult.stmtCount = 2
    /\ callResult.hash = Type1_computeHash(LogMethodOf(callResult.text).stmts)

\* C18: only a statement that is one logging call alone is a log statement and is
\* filtered; every statement that joins a logging call with other code, the other code
\* standing before or after the call (logical operator, assignment, condition), is kept
\* and takes part in the statement count and the hash
C18_OnlyPureLogsFiltered ==
    callDone => IF callArgs.shape = "pure" THEN Filtered ELSE Kept

\* what the checker does instead: a statement that starts with the logging call and
\* ends with a closing parenthesis is filtered whatever stands between; the others
\* are kept
C18_LeadingLogCallFiltered ==
    callDone =>
        IF \/ callArgs.shape = "pure"
           \/ callArgs.shape \in {"logAndCode", "logOrCode"}
                 /\ callArgs.other[Len(callArgs.other)] = 41
        THEN Filtered ELSE Kept

\* console.log(a) && save(b) is filtered
C18_Witness ==
    /\ callDone /\ callArgs.shape = "logAndCode"
    /\ callResult.text = LogCallOf(<<99, 111, 110, 115, 111, 108, 101, 46, 108, 111, 103>>,
                                   <<97>>) \o StrAnd \o <<115, 97, 118, 101, 40, 98, 41>>
    /\ Filtered

\* validate() && hilog.info("ok") is kept
C18_CodeBeforeReached ==
    /\ callDone /\ callArgs.shape = "codeAndLog"
    /\ callArgs.logger = <<104, 105, 108, 111, 103, 46, 105, 110, 102, 111>>
    /\ Kept

\* a pure logging call is filtered
C18_PureReached == callDone /\ callArgs.shape = "pure" /\ Filtered

(***************************************************************************)
(* Method bodies that differ in their logging statements only               *)
(***************************************************************************)
\* "hilog.info(a)"
TextHilog == <<104, 105, 108, 111, 103, 46, 105, 110, 102, 111, 40, 97, 41>>

\* the pure logging statements of the bodies
PureLogTexts == {TextLog, TextHilog}

\* bodies with the same business statements: a logging call first, a logging call in
\* the middle, no logging call; and a body with other business statements
LogBodies ==
    {<<TextLog, TextAssign, TextTemp1>>, <<TextHilog, TextAssign, TextTemp1>>,
     <<TextAssign, TextLog, TextTemp1>>, <<TextAssign, TextHilog, TextTemp1>>,
     <<TextAssign, TextTemp1>>, <<TextHilog, TextAssign, TextThisA>>}

\* a file whose class Cl has the one method m1 with the body
LogFileOf(f, texts) ==
    [filePath |-> f, source |-> Unreadable,
     classes |-> <<DefaultClass,
                   [name |-> NameCl, methods |-> <<MethodOf(NameM1, 1, texts)>>]>>]

LogFiles == {LogFileOf(f, texts) : f \in CheckedFiles, texts \in LogBodies}

InitLogs ==
    /\ HashIdle /\ WinIdle /\ IndexIdle /\ MergeIdle /\ CallIdle
    /\ registered = "method"
    /\ rule = UnsetFragmentRule /\ FragmentConstructed
    /\ methodRule \in MethodRules /\ MethodConstructed

NextLogs ==
    \/ MethodBeforeCheck
    \/ \E arkFile \in LogFiles : CollectMethods(arkFile)
    \/ MethodAfterCheck

SpecLogs == InitLogs /\ [][NextLogs]_vars

\* the two bodies have the same statements except that, at the same points, each has
\* a pure logging statement of its own
SameButLogs(texts1, texts2) ==
    /\ Len(texts1) = Len(texts2)
    /\ \A k \in 1..Len(texts1) :
          \/ texts1[k] = texts2[k]
          \/ texts1[k] \in PureLogTexts /\ texts2[k] \in PureLogTexts

\* the method m1 of class Cl of a delivered file
LogMethodIn(arkFile) == arkFile.classes[2].methods[1]

\* the method is eligible: its counted statements reach minStmts
EligibleLogMethod(arkFile) == ~LeftOut(arkFile.classes[2], LogMethodIn(arkFile))

\* the MethodInfo the checker makes of m1 of the file
LogInfoOf(arkFile) ==
    extractMethodInfo(methodRule, LogMethodIn(arkFile), arkFile.filePath, NameCl)[1]

\* C19: with ignoreLogs true (the default), two eligible methods whose statement lists
\* are the same except for pure logging statements at the same points get the same
\* hash and are reported as clones; with ignoreLogs false the same two methods get
\* different hashes and are not reported
C19_LogsIgnored ==
    methodPhase = "done" /\ Len(methodDelivered) = 2 =>
        LET file1 == methodDelivered[1]
            file2 == methodDelivered[2]
        IN  /\ SameButLogs([k \in 1..Len(LogMethodIn(file1).stmts) |->
                               LogMethodIn(file1).stmts[k].text],
                           [k \in 1..Len(LogMethodIn(file2).stmts) |->
                               LogMethodIn(file2).stmts[k].text])
            /\ LogMethodIn(file1).stmts # LogMethodIn(file2).stmts
            /\ EligibleLogMethod(file1) /\ EligibleLogMethod(file2)
            => IF getIgnoreLogs(methodRule)
               THEN /\ LogInfoOf(file1).hash = LogInfoOf(file2).hash
                    /\ Cardinality(IssuesOfPair(LogInfoOf(file1), LogInfoOf(file2))) = 1
               ELSE /\ LogInfoOf(file1).hash # LogInfoOf(file2).hash
                    /\ IssuesOfPair(LogInfoOf(file1), LogInfoOf(file2)) = {}

\* console.log(a) in a.ets, hilog.info(a) in b.ets, ignoreLogs by default: one issue
C19_Witness ==
    /\ methodPhase = "done" /\ Len(methodDelivered) = 2
    /\ getIgnoreLogs(methodRule) /\ getMinStmts(methodRule) = 2
    /\ methodDelivered[1] = LogFileOf("a.ets", <<TextLog, TextAssign, TextTemp1>>)
    /\ methodDelivered[2] = LogFileOf("b.ets", <<TextHilog, TextAssign, TextTemp1>>)
    /\ Len(methodIssues) = 1
    /\ methodIssues[1].description.method.stmtCount = 2

\* the same files with ignoreLogs false: no issue
C19_NotIgnoredReached ==
    /\ methodPhase = "done" /\ Len(methodDelivered) = 2
    /\ ~getIgnoreLogs(methodRule) /\ getMinStmts(methodRule) = 2
    /\ methodDelivered[1] = LogFileOf("a.ets", <<TextLog, TextAssign, TextTemp1>>)
    /\ methodDelivered[2] = LogFileOf("b.ets", <<TextHilog, TextAssign, TextTemp1>>)
    /\ methodIssues = <<>>

(***************************************************************************)
(* Identifier normalization of the Tokenizer and of the statement-text      *)
(* normalizer on a call  return f(x, y)                                     *)
(***************************************************************************)
\* "add", "increment", "b", "step", "max"
NameAdd       == <<97, 100, 100>>
NameIncrement == <<105, 110, 99, 114, 101, 109, 101, 110, 116>>
NameB         == <<98>>
NameStep      == <<115, 116, 101, 112>>
NameMax       == <<109, 97, 120>>

\* the calls f(x, y) as <<f, x, y>>
CallsOfTwo ==
    {<<f, x, y>> : f \in {NameAdd, NameIncrement},
                   x \in {NameA, NameStep, NameMAX, NameMap},
                   y \in {NameB, NameMax}}

\* what the scanner finds in  return f(x, y)
CallSource(call) ==
    SourceOf(<<[text |-> <<114, 101, 116, 117, 114, 110>>, kind |-> "ReturnKeyword"],
               Ident(call[1]), [text |-> <<40>>, kind |-> "OpenParenToken"],
               Ident(call[2]), [text |-> <<44>>, kind |-> "CommaToken"],
               Ident(call[3]), [text |-> <<41>>, kind |-> "CloseParenToken"]>>)

\* the statement  return f(x, y)  as the method body prints it
CallText(call) ==
    StrReturn \o call[1] \o <<40>> \o call[2] \o <<44, 32>> \o call[3] \o <<41>>

\* the values of the tokens of the call, identifiers normalized
TokenValuesOf(call, literals) ==
    LET tokens == Tokenizer_tokenize(NewTokenizer(TRUE, literals), CallSource(call), "a.ets")
    IN  [k \in 1..Len(tokens) |-> tokens[k].value]

\* the hash of the window that holds all tokens of the call
WindowHashOf(call, literals) ==
    LET tokens == Tokenizer_tokenize(NewTokenizer(TRUE, literals), CallSource(call), "a.ets")
    IN  computeWindowHash(createSlidingWindows(tokens, Len(tokens))[1])

\* the words of a text: its maximal runs of word characters, from position k on
RECURSIVE WordsFrom(_, _, _)
WordsFrom(text, k, words) ==
    IF k > Len(text) THEN words
    ELSE IF ~IsWord(text[k]) THEN WordsFrom(text, k + 1, words)
    ELSE WordsFrom(text, RunEndWord(text, k) + 1,
                   Append(words, SubSeq(text, k, RunEndWord(text, k))))

NormalizedCall(call, literals) ==
    [tokenValues |-> TokenValuesOf(call, literals),
     windowHash  |-> WindowHashOf(call, literals),
     text        |-> Type2_combined(literals, StmtsOf(<<CallText(call)>>)),
     textHash    |-> Type2_computeHash(literals, StmtsOf(<<CallText(call)>>))]

InitIdentifiers ==
    /\ HashIdle /\ WinIdle /\ IndexIdle /\ MergeIdle
    /\ registered = "none"
    /\ rule = UnsetFragmentRule /\ FragmentConstructed
    /\ methodRule = UnsetMethodRule /\ MethodConstructed
    /\ callArgs \in [first : CallsOfTwo, second : CallsOfTwo, literals : BOOLEAN]
    /\ callResult = <<>> /\ callDone = FALSE

\* Tokenizer.tokenize and computeHash of the Type-2 checker on both calls
ApplyIdentifiers ==
    /\ ~callDone
    /\ callDone' = TRUE
    /\ callResult' = [first  |-> NormalizedCall(callArgs.first, callArgs.literals),
                      second |-> NormalizedCall(callArgs.second, callArgs.literals)]
    /\ UNCHANGED <<callArgs, hashVars, winVars, indexVars, mergeVars, registered,
                   fragVars, methodVars>>

NextIdentifiers == ApplyIdentifiers

SpecIdentifiers == InitIdentifiers /\ [][NextIdentifiers]_vars

\* ID_ followed by digits
IsPlaceholder(value) ==
    /\ Len(value) > Len(StrID_)
    /\ SubSeq(value, 1, Len(StrID_)) = StrID_
    /\ \A k \in (Len(StrID_) + 1)..Len(value) : IsDigit(value[k])

\* the three identifiers of the call in the token values and in the normalized text
TokenIdentifiers(normalized) ==
    <<normalized.tokenValues[2], normalized.tokenValues[4], normalized.tokenValues[6]>>

TextIdentifiers(normalized) == Tail(WordsFrom(normalized.text, 1, <<>>))

\* an identifier of length 1 stays, an identifier subject to normalization becomes a
\* placeholder, in the token values and in the text
NormalizedAsClaimed(call, normalized) ==
    \A k \in 1..3 :
        /\ Len(call[k]) = 1 =>
              /\ TokenIdentifiers(normalized)[k] = call[k]
              /\ TextIdentifiers(normalized)[k] = call[k]
        /\ SubjectToNormalization(call[k]) =>
              /\ IsPlaceholder(TokenIdentifiers(normalized)[k])
              /\ IsPlaceholder(TextIdentifiers(normalized)[k])

C20_LiteralsReached ==
    /\ callDone /\ callArgs.literals
    /\ callArgs.first = <<NameAdd, NameA, NameB>>
    /\ callArgs.second = <<NameIncrement, NameStep, NameMax>>
    /\ callResult.first.windowHash # callResult.second.windowHash

(***************************************************************************)
(* The reserved names under normalizeIdentifiers                            *)
(***************************************************************************)
\* how the statement uses the reserved name: item.name(other), name = other,
\* other + name + name
KeywordShapes == {"member", "assigned", "twice"}

\* "item.", " + "
StrItemDot == <<105, 116, 101, 109, 46>>
StrPlus    == <<32, 43, 32>>

KeywordText(shape, keyword, other) ==
    CASE shape = "member"   -> StrItemDot \o keyword \o <<40>> \o other \o <<41>>
      [] shape = "assigned" -> keyword \o StrAssign \o other
      [] shape = "twice"    -> other \o StrPlus \o keyword \o StrPlus \o keyword

InitKeywords ==
    /\ HashIdle /\ WinIdle /\ IndexIdle /\ MergeIdle
    /\ registered = "none"
    /\ rule = UnsetFragmentRule /\ FragmentConstructed
    /\ methodRule = UnsetMethodRule /\ MethodConstructed
    /\ callArgs \in [shape : KeywordShapes, keyword : TYPE2_KEYWORDS,
                     other : {NameTotal, NameA}]
    /\ callResult = <<>> /\ callDone = FALSE

\* normalizeIdentifiers on the statement with a fresh identifierMap
ApplyKeywords ==
    /\ ~callDone
    /\ callDone' = TRUE
    /\ LET text == KeywordText(callArgs.shape, callArgs.keyword, callArgs.other)
           r    == normalizeIdentifiers(text, <<>>)
       IN  callResult' = [input |-> text, text |-> r.text, map |-> r.map]
    /\ UNCHANGED <<callArgs, hashVars, winVars, indexVars, mergeVars, registered,
                   fragVars, methodVars>>

NextKeywords == ApplyKeywords

SpecKeywords == InitKeywords /\ [][NextKeywords]_vars

\* the reserved name stands in the result wherever it stands in the statement, and
\* the identifierMap has no entry for it
KeywordUntouched ==
    /\ \A k \in 1..Len(WordsFrom(callResult.input, 1, <<>>)) :
          WordsFrom(callResult.input, 1, <<>>)[k] = callArgs.keyword
             => WordsFrom(callResult.text, 1, <<>>)[k] = callArgs.keyword
    /\ MapPos(callResult.map, callArgs.keyword, 1) = 0

\* C21: every name of the reserved set of Type-2 normalization (forEach, indexOf,
\* toFixed and toString among them) is left unchanged by normalizeIdentifiers wherever
\* it occurs as an identifier, and consumes no placeholder number
C21_ReservedNamesKept ==
    callDone => KeywordUntouched

\* what the checker does instead: the reserved names spelled in lower case are left
\* unchanged; a reserved name with a capital letter is replaced and takes a number
C21_LowerCaseNamesKept ==
    callDone =>
        IF callArgs.keyword = ToLowerCase(callArgs.keyword)
        THEN KeywordUntouched
        ELSE /\ MapPos(callResult.map, callArgs.keyword, 1) # 0
             /\ \A k \in 1..Len(WordsFrom(callResult.input, 1, <<>>)) :
                   WordsFrom(callResult.input, 1, <<>>)[k] = callArgs.keyword
                      => IsPlaceholder(WordsFrom(callResult.text, 1, <<>>)[k])

\* item.forEach(total) becomes ID_1.ID_2(ID_3)
C21_Witness ==
    /\ callDone /\ callArgs.shape = "member"
    /\ callArgs.keyword = <<102, 111, 114, 69, 97, 99, 104>>
    /\ callArgs.other = NameTotal
    /\ callResult.text = <<73, 68, 95, 49, 46, 73, 68, 95, 50, 40, 73, 68, 95, 51, 41>>
    /\ Len(callResult.map) = 3

\* item.push(total) becomes ID_1.push(ID_2)
C21_KeptReached ==
    /\ callDone /\ callArgs.shape = "member"
    /\ callArgs.keyword = <<112, 117, 115, 104>>
    /\ callArgs.other = NameTotal
    /\ callResult.text = <<73, 68, 95, 49, 46, 112, 117, 115, 104, 40, 73, 68, 95, 50, 41>>
    /\ Len(callResult.map) = 2

(***************************************************************************)
(* Several tokenize calls on one Tokenizer instance                         *)
(***************************************************************************)
MaxIdents == 3        \* most identifiers of a source handed to tokenize

\* the sources of 1..MaxIdents identifiers out of ab, total, a
IdentSources ==
    {SourceOf(Idents(names)) :
        names \in UNION {[1..n -> {NameAb, NameTotal, NameA}] : n \in 1..MaxIdents}}

\* callArgs is the two sources handed to tokenize one after the other; callResult is
\* the identifierMap and identifierCounter of the instance and the token values each
\* call returned
InitTokenize ==
    /\ HashIdle /\ WinIdle /\ IndexIdle /\ MergeIdle
    /\ registered = "none"
    /\ rule = UnsetFragmentRule /\ FragmentConstructed
    /\ methodRule = UnsetMethodRule /\ MethodConstructed
    /\ callArgs \in [1..2 -> IdentSources]
    /\ callResult = [instance |-> [map |-> <<>>, counter |-> 0], outputs |-> <<>>]
    /\ callDone = FALSE

\* tokenizer.tokenize(source) with normalizeIdentifiers set
TokenizeCall ==
    /\ ~callDone
    /\ LET k == Len(callResult.outputs) + 1
           r == Tokenizer_tokenizeOn(callResult.instance, NewTokenizer(TRUE, FALSE),
                                     callArgs[k], "a.ets")
       IN  /\ callResult' = [instance |-> r.st,
                             outputs  |-> Append(callResult.outputs,
                                                 [i \in 1..Len(r.tokens) |->
                                                     r.tokens[i].value])]
           /\ callDone' = (k = Len(callArgs))
    /\ UNCHANGED <<callArgs, hashVars, winVars, indexVars, mergeVars, registered,
                   fragVars, methodVars>>

NextTokenize == TokenizeCall

SpecTokenize == InitTokenize /\ [][NextTokenize]_vars

\* the identifiers of length 2 or more that occur in the source before lexeme i
LongBefore(source, i) ==
    {source.lexemes[j].text : j \in {h \in 1..(i - 1) : Len(source.lexemes[h].text) >= 2}}

\* the lexeme at which the identifier of lexeme i occurs first
FirstOccurrence(source, i) ==
    CHOOSE j \in 1..i :
        /\ source.lexemes[j].text = source.lexemes[i].text
        /\ \A h \in 1..(j - 1) : source.lexemes[h].text # source.lexemes[i].text

\* the placeholder of the identifier at lexeme i: ID_n, n the number of distinct
\* identifiers of length 2 or more that occur before its first occurrence
PlaceholderAt(source, i) ==
    StrID_ \o Decimal(Cardinality(LongBefore(source, FirstOccurrence(source, i))))

\* C22: with normalizeIdentifiers set, within one tokenize call every occurrence of an
\* identifier of length 2 or more is replaced by the same placeholder, distinct
\* identifiers get distinct placeholders ID_0, ID_1, ... in order of first occurrence,
\* and the result does not depend on an earlier tokenize call on the same instance
C22_FreshPlaceholdersPerCall ==
    \A k \in 1..Len(callResult.outputs) :
        /\ Len(callResult.outputs[k]) = Len(callArgs[k].lexemes)
        /\ \A i \in 1..Len(callArgs[k].lexemes) :
              Len(callArgs[k].lexemes[i].text) >= 2
                 => callResult.outputs[k][i] = PlaceholderAt(callArgs[k], i)

\* ab total ab tokenized after total ab: ID_0 ID_1 ID_0 again
C22_Witness ==
    /\ callDone
    /\ callArgs[1] = SourceOf(Idents(<<NameTotal, NameAb>>))
    /\ callArgs[2] = SourceOf(Idents(<<NameAb, NameTotal, NameAb>>))
    /\ callResult.outputs[1] = <<StrID_ \o <<48>>, StrID_ \o <<49>>>>
    /\ callResult.outputs[2] = <<StrID_ \o <<48>>, StrID_ \o <<49>>, StrID_ \o <<48>>>>

\* C23: every report of a run of the fragment checker is labelled Type-1 if and only
\* if neither normalizeIdentifiers nor normalizeLiterals was in effect for the
\* tokenization of that run, and Type-2 otherwise
C23_CloneTypeLabel ==
    \A k \in 1..Len(issues) :
        /\ issues[k].description.cloneType \in {"Type-1", "Type-2"}
        /\ issues[k].description.cloneType = "Type-1"
              <=> ~tokenizer.normalizeIdentifiers /\ ~tokenizer.normalizeLiterals

\* a run with normalizeIdentifiers false and normalizeLiterals unset reports Type-1
C23_Witness ==
    /\ phase = "done" /\ issues # <<>>
    /\ ~tokenizer.normalizeIdentifiers /\ ~tokenizer.normalizeLiterals
    /\ issues[1].description.cloneType = "Type-1"

\* a run with normalizeIdentifiers false and normalizeLiterals true reports Type-2
C23_LiteralsOnlyReached ==
    /\ phase = "done" /\ issues # <<>>
    /\ ~tokenizer.normalizeIdentifiers /\ tokenizer.normalizeLiterals
    /\ issues[1].description.cloneType = "Type-2"

\* a run whose rule leaves both flags out (normalizeIdentifiers is true by default)
\* reports Type-2
C23_DefaultsReached ==
    /\ phase = "done" /\ issues # <<>>
    /\ rule.option.normalizeIdentifiers.kind = "undefined"
    /\ rule.option.normalizeLiterals.kind = "undefined"
    /\ issues[1].description.cloneType = "Type-2"

(***************************************************************************)
(* Files whose source cannot be read                                        *)
(***************************************************************************)
\* the delivered files without those whose source cannot be read
ReadableOf(files) == SelectSeq(files, LAMBDA arkFile : arkFile.source.readable)

\* the fields of the checker after beforeCheck and collectTokens on the files from k on
RECURSIVE CollectAll(_, _, _, _)
CollectAll(st, r, files, k) ==
    IF k > Len(files) THEN st
    ELSE CollectAll(Fragment_collectTokens(st, r, files[k]), r, files, k + 1)

\* the run as it stands had the unreadable files never been delivered
WithoutUnreadable ==
    CollectAll(Fragment_beforeCheck(FragmentFields, rule), rule, ReadableOf(delivered), 1)

\* C24: when reading a file's source fails in collectTokens, the call returns and
\* leaves the hash index, the file cache and the issue list as they were, and the
\* files delivered afterwards in the run are still tokenized, indexed and matched:
\* index, cache and issues are those of the run without the unreadable files
C24_ReadFailureSkipsFile ==
    /\ phase = "collecting" =>
          /\ cloneMatcher = WithoutUnreadable.cloneMatcher
          /\ fileCache = WithoutUnreadable.fileCache
          /\ issues = <<>>
    /\ phase = "done" =>
          /\ cloneMatcher = WithoutUnreadable.cloneMatcher
          /\ fileCache = WithoutUnreadable.fileCache
          /\ issues = Fragment_afterCheckIssues(<<>>, rule, WithoutUnreadable.fileCache,
                          cloneMerger,
                          CloneMatcher_getClonePairs(WithoutUnreadable.cloneMatcher))

\* a.ets cannot be read, b.ets (a b a b) is delivered after it and its clone is reported
C24_Witness ==
    /\ phase = "done" /\ Len(delivered) = 2
    /\ delivered[1].filePath = "a.ets" /\ ~delivered[1].source.readable
    /\ delivered[2].filePath = "b.ets" /\ delivered[2].source = AlternateSource
    /\ MapPos(fileCache, "a.ets", 1) = 0 /\ MapPos(fileCache, "b.ets", 1) # 0
    /\ issues # <<>>

\* the unreadable file comes second: what a.ets left in index and cache stays
C24_FailureAfterReached ==
    /\ phase = "collecting" /\ Len(delivered) = 2
    /\ delivered[1].source = AlternateSource /\ ~delivered[2].source.readable
    /\ cloneMatcher.hashIndex # <<>>
    /\ Len(fileCache) = 1

(***************************************************************************)
(* Reading the rule options: utils.ts getRuleOption, the fragment checker's *)
(* own getters, LongMethodCheck and SwitchStatementCheck thresholds         *)
(***************************************************************************)
DEFAULT_MAX_STMTS == 50
DEFAULT_MAX_UI_STMTS_SOFT == 80
DEFAULT_MAX_UI_STMTS_HARD == 120
MIN_CASES == 5

\* what this.rule and this.rule.option can be: no rule, a rule without option, an
\* option that is no array, an empty array, and an array whose first element is
\* null, a primitive, an array or an object
RuleShapes ==
    {"noRule", "noOption", "optionNotArray", "emptyArray",
     "nullElement", "primitiveElement", "arrayElement", "object"}

OptionKeys ==
    {"minimumTokens", "normalizeIdentifiers", "normalizeLiterals", "minStmts",
     "ignoreLogs", "ignoreLiterals", "maxStmts", "maxLines", "maxUIStmtsSoft",
     "maxUIStmtsHard", "minCases"}

\* a value of an options object as [kind, val]: kind is what typeof gives (a missing
\* key reads as undefined), a boolean's val is 1 for true and 0 for false
OptionValues ==
    {Configured("undefined", 0), Configured("number", 7), Configured("string", 0),
     Configured("boolean", 0), Configured("boolean", 1), Configured("object", 0)}

AliasValues == {Configured("undefined", 0), Configured("number", 9)}

\* a number as the getters see it; Number.NaN is the one that is not finite
Finite(n) == [finite |-> TRUE, val |-> n]
NaN == [finite |-> FALSE, val |-> 0]

BoolNum(b) == IF b THEN 1 ELSE 0

Returned(v) == [threw |-> FALSE, val |-> v]
Thrown == [threw |-> TRUE, val |-> 0]

\* utils.ts getRuleOption for one key of the defaults: the default stays unless the
\* rule has an option array whose first element is a plain object that holds the key
\* with a value of the default's type
getRuleOptionKey(config, key, defaultKind, defaultValue) ==
    IF config.shape \in {"noRule", "noOption", "optionNotArray", "emptyArray"}
    THEN defaultValue
    ELSE IF config.shape \in {"nullElement", "primitiveElement", "arrayElement"}
    THEN defaultValue
    ELSE IF config.first[key].kind = "undefined" THEN defaultValue
    ELSE IF config.first[key].kind = defaultKind THEN Finite(config.first[key].val)
    ELSE defaultValue

\* one getter of CodeCloneFragmentCheck: rule && rule.option && rule.option.length > 0,
\* then typeof firstOption[key]; reading a property of null throws a TypeError
readFirstOption(config, key, typeName, defaultValue) ==
    IF config.shape \in {"noRule", "noOption", "emptyArray"} THEN Returned(defaultValue)
    ELSE IF config.shape = "nullElement" THEN Thrown
    ELSE IF config.shape = "object" /\ config.first[key].kind = typeName
    THEN Returned(config.first[key].val)
    ELSE Returned(defaultValue)

getMinimumTokensFrom(config) ==
    readFirstOption(config, "minimumTokens", "number", DEFAULT_MINIMUM_TOKENS)

getNormalizeIdentifiersFrom(config) ==
    readFirstOption(config, "normalizeIdentifiers", "boolean",
                    BoolNum(DEFAULT_NORMALIZE_IDENTIFIERS))

getNormalizeLiteralsFrom(config) ==
    readFirstOption(config, "normalizeLiterals", "boolean",
                    BoolNum(DEFAULT_NORMALIZE_LITERALS))

\* LongMethodCheck.getMaxStmtsFromConfig
getMaxStmtsFromConfig(config) ==
    LET maxStmts == getRuleOptionKey(config, "maxStmts", "number", NaN)
        maxLines == getRuleOptionKey(config, "maxLines", "number", NaN)
    IN  IF maxStmts.finite THEN maxStmts.val
        ELSE IF maxLines.finite THEN maxLines.val
        ELSE DEFAULT_MAX_STMTS

\* LongMethodCheck.getUIThresholdsFromConfig
getUIThresholdsFromConfig(config) ==
    LET maxUIStmtsSoft == getRuleOptionKey(config, "maxUIStmtsSoft", "number", NaN)
        maxUIStmtsHard == getRuleOptionKey(config, "maxUIStmtsHard", "number", NaN)
    IN  [softLimit |-> IF maxUIStmtsSoft.finite THEN maxUIStmtsSoft.val
                       ELSE DEFAULT_MAX_UI_STMTS_SOFT,
         hardLimit |-> IF maxUIStmtsHard.finite THEN maxUIStmtsHard.val
                       ELSE DEFAULT_MAX_UI_STMTS_HARD]

\* SwitchStatementCheck.getCaseThreshold
getCaseThreshold(config) ==
    getRuleOptionKey(config, "minCases", "number", Finite(MIN_CASES)).val

\* the getter of each option, as the checker that owns the option reads it
ReadOption(option, config) ==
    CASE option = "minimumTokens" -> getMinimumTokensFrom(config)
      [] option = "normalizeIdentifiers" -> getNormalizeIdentifiersFrom(config)
      [] option = "normalizeLiterals" -> getNormalizeLiteralsFrom(config)
      [] option = "minStmts" ->
            Returned(getRuleOptionKey(config, "minStmts", "number",
                                      Finite(DEFAULT_MIN_STMTS)).val)
      [] option = "ignoreLogs" ->
            Returned(getRuleOptionKey(config, "ignoreLogs", "boolean",
                                      Finite(BoolNum(TRUE))).val)
      [] option = "ignoreLiterals" ->
            Returned(getRuleOptionKey(config, "ignoreLiterals", "boolean",
                                      Finite(BoolNum(FALSE))).val)
      [] option = "maxStmts" -> Returned(getMaxStmtsFromConfig(config))
      [] option = "maxUIStmtsSoft" ->
            Returned(getUIThresholdsFromConfig(config).softLimit)
      [] option = "maxUIStmtsHard" ->
            Returned(getUIThresholdsFromConfig(config).hardLimit)
      [] option = "minCases" -> Returned(getCaseThreshold(config))

OptionNames == OptionKeys \ {"maxLines"}

FragmentOptions == {"minimumTokens", "normalizeIdentifiers", "normalizeLiterals"}

BooleanOptions == {"normalizeIdentifiers", "normalizeLiterals", "ignoreLogs", "ignoreLiterals"}

TypeOfOption(option) == IF option \in BooleanOptions THEN "boolean" ELSE "number"

DefaultOf(option) ==
    CASE option = "minimumTokens" -> DEFAULT_MINIMUM_TOKENS
      [] option = "normalizeIdentifiers" -> BoolNum(DEFAULT_NORMALIZE_IDENTIFIERS)
      [] option = "normalizeLiterals" -> BoolNum(DEFAULT_NORMALIZE_LITERALS)
      [] option = "minStmts" -> DEFAULT_MIN_STMTS
      [] option = "ignoreLogs" -> 1
      [] option = "ignoreLiterals" -> 0
      [] option = "maxStmts" -> DEFAULT_MAX_STMTS
      [] option = "maxUIStmtsSoft" -> DEFAULT_MAX_UI_STMTS_SOFT
      [] option = "maxUIStmtsHard" -> DEFAULT_MAX_UI_STMTS_HARD
      [] option = "minCases" -> MIN_CASES

\* the rule configuration of one input: the option's key holds the value, maxLines
\* holds the alias value when the option is maxStmts, every other key is missing
ConfigOf(args) ==
    [shape |-> args.shape,
     first |-> [key \in OptionKeys |->
                   IF key = args.option THEN args.value
                   ELSE IF key = "maxLines" /\ args.option = "maxStmts" THEN args.alias
                   ELSE Configured("undefined", 0)]]

InitOptions ==
    /\ HashIdle /\ WinIdle /\ IndexIdle /\ MergeIdle
    /\ registered = "none"
    /\ rule = UnsetFragmentRule /\ FragmentConstructed
    /\ methodRule = UnsetMethodRule /\ MethodConstructed
    /\ callArgs \in [option : OptionNames, shape : RuleShapes, value : OptionValues,
                     alias : AliasValues]
    /\ callResult = <<>> /\ callDone = FALSE

\* the owning checker reads the option from the rule
ApplyOptions ==
    /\ ~callDone
    /\ callDone' = TRUE
    /\ callResult' = ReadOption(callArgs.option, ConfigOf(callArgs))
    /\ UNCHANGED <<callArgs, hashVars, winVars, indexVars, mergeVars, registered,
                   fragVars, methodVars>>

NextOptions == ApplyOptions

SpecOptions == InitOptions /\ [][NextOptions]_vars

\* the value of the option is unusable: the first options element is missing or is
\* no object, or the key is missing or holds a value of another type (for maxStmts
\* the alias maxLines is unusable as well)
OptionUnusable ==
    \/ callArgs.shape # "object"
    \/ /\ callArgs.value.kind # TypeOfOption(callArgs.option)
       /\ callArgs.option = "maxStmts" => callArgs.alias.kind # "number"

\* C25: for every checker option, a value of the wrong type, a missing key, or a
\* missing or malformed first options element makes the checker use the built-in
\* default of the option, and reading the configuration never throws
C25_DefaultOnUnusableOption ==
    callDone =>
        /\ ~callResult.threw
        /\ OptionUnusable => callResult.val = DefaultOf(callArgs.option)

\* what the checkers do instead: the options read through getRuleOption always fall
\* back; the three getters of the fragment checker fall back unless the first options
\* element is null, and then they throw
C25_DefaultUnlessNullElement ==
    callDone =>
        IF callArgs.option \in FragmentOptions /\ callArgs.shape = "nullElement"
        THEN callResult.threw
        ELSE /\ ~callResult.threw
             /\ OptionUnusable => callResult.val = DefaultOf(callArgs.option)

\* options [null] read by getMinimumTokens
C25_Witness ==
    /\ callDone
    /\ callArgs.option = "minimumTokens" /\ callArgs.shape = "nullElement"
    /\ callResult.threw

\* maxStmts given as a string, without maxLines: the default 50 is used
C25_StringFallsBack ==
    /\ callDone
    /\ callArgs.option = "maxStmts" /\ callArgs.shape = "object"
    /\ callArgs.value.kind = "string" /\ callArgs.alias.kind = "undefined"
    /\ ~callResult.threw /\ callResult.val = DEFAULT_MAX_STMTS

(***************************************************************************)
(* LongMethodCheck                                                         *)
(***************************************************************************)
MaxStmtCount == 6

UI_LIFECYCLE_METHODS ==
    {"aboutToAppear", "aboutToDisappear", "onPageShow", "onPageHide", "onBackPress"}

\* the severity of gMetaData
LongMethodSeverity == 2

\* a method as the checker sees it; stmtCount is the length of the CFG's statement
\* list, 0 for a method without body
LongMethods ==
    [hasBuilderDecorator : BOOLEAN, hasViewTree : BOOLEAN, isStruct : BOOLEAN,
     hasComponentDecorator : BOOLEAN, name : {"build", "aboutToAppear", "render"},
     stmtCount : (0..MaxStmtCount)
                 \cup {DEFAULT_MAX_STMTS, DEFAULT_MAX_STMTS + 1,
                       DEFAULT_MAX_UI_STMTS_SOFT, DEFAULT_MAX_UI_STMTS_SOFT + 1,
                       DEFAULT_MAX_UI_STMTS_HARD, DEFAULT_MAX_UI_STMTS_HARD + 1}]

\* LongMethodCheck.isUIMethod
isUIMethod(method) ==
    IF method.hasBuilderDecorator THEN TRUE
    ELSE IF method.hasViewTree THEN TRUE
    ELSE IF method.isStruct
    THEN IF method.name = "build" THEN TRUE
         ELSE method.name \in UI_LIFECYCLE_METHODS /\ method.hasComponentDecorator
    ELSE FALSE

\* LongMethodCheck.addIssueReport: severityOverride ?? rule.alert ?? metaData.severity
addIssueReport(found, alert, actualStmts, maxStmts, severityOverride) ==
    Append(found,
           [severity |-> IF severityOverride.kind = "number" THEN severityOverride.val
                         ELSE IF alert.kind = "number" THEN alert.val
                         ELSE LongMethodSeverity,
            actualStmts |-> actualStmts, maxStmts |-> maxStmts])

checkNormalMethod(config, alert, stmtCount, found) ==
    LET maxStmts == getMaxStmtsFromConfig(config)
    IN  IF stmtCount > maxStmts
        THEN addIssueReport(found, alert, stmtCount, maxStmts, Configured("undefined", 0))
        ELSE found

\* the soft threshold tested before the hard one
checkUIMethodSoftFirst(config, alert, stmtCount, found) ==
    LET limits == getUIThresholdsFromConfig(config)
    IN  IF stmtCount > limits.softLimit
        THEN addIssueReport(found, alert, stmtCount, limits.softLimit,
                            Configured("number", 1))
        ELSE IF stmtCount > limits.hardLimit
        THEN addIssueReport(found, alert, stmtCount, limits.hardLimit,
                            Configured("undefined", 0))
        ELSE found

checkUIMethod(config, alert, stmtCount, found) ==
    LET limits == getUIThresholdsFromConfig(config)
    IN  IF stmtCount > limits.hardLimit
        THEN addIssueReport(found, alert, stmtCount, limits.hardLimit,
                            Configured("undefined", 0))
        ELSE IF stmtCount > limits.softLimit
        THEN addIssueReport(found, alert, stmtCount, limits.softLimit,
                            Configured("number", 1))
        ELSE found

\* LongMethodCheck.check
LongMethod_check(config, alert, method, found) ==
    IF isUIMethod(method)
    THEN checkUIMethod(config, alert, method.stmtCount, found)
    ELSE checkNormalMethod(config, alert, method.stmtCount, found)

SoftValues == {Configured("undefined", 0), Configured("number", 2), Configured("number", 4)}
HardValues == {Configured("undefined", 0), Configured("number", 3), Configured("number", 5)}
AlertValues == {Configured("undefined", 0), Configured("number", 1), Configured("number", 2)}

\* the rule of one input: an options object with the two UI thresholds
LongMethodConfig(args) ==
    [shape |-> "object",
     first |-> [key \in OptionKeys |->
                   IF key = "maxUIStmtsSoft" THEN args.soft
                   ELSE IF key = "maxUIStmtsHard" THEN args.hard
                   ELSE Configured("undefined", 0)]]

InitLongMethod ==
    /\ HashIdle /\ WinIdle /\ IndexIdle /\ MergeIdle
    /\ registered = "none"
    /\ rule = UnsetFragmentRule /\ FragmentConstructed
    /\ methodRule = UnsetMethodRule /\ MethodConstructed
    /\ callArgs \in [method : LongMethods, soft : SoftValues, hard : HardValues,
                     alert : AlertValues]
    /\ callResult = <<>> /\ callDone = FALSE

\* one check call on a checker whose issue list is empty
ApplyLongMethod ==
    /\ ~callDone
    /\ callDone' = TRUE
    /\ callResult' = LongMethod_check(LongMethodConfig(callArgs), callArgs.alert,
                                      callArgs.method, <<>>)
    /\ UNCHANGED <<callArgs, hashVars, winVars, indexVars, mergeVars, registered,
                   fragVars, methodVars>>

NextLongMethod == ApplyLongMethod

SpecLongMethod == InitLongMethod /\ [][NextLongMethod]_vars

SoftOf(args) ==
    IF args.soft.kind = "number" THEN args.soft.val ELSE DEFAULT_MAX_UI_STMTS_SOFT

HardOf(args) ==
    IF args.hard.kind = "number" THEN args.hard.val ELSE DEFAULT_MAX_UI_STMTS_HARD

RuleSeverityOf(args) ==
    IF args.alert.kind = "number" THEN args.alert.val ELSE LongMethodSeverity

OneIssueOfSeverity(found, severity) ==
    Len(found) = 1 /\ found[1].severity = severity

\* C26: for a UI method with s statements and configured thresholds soft and hard,
\* one check call adds no issue when s <= soft, exactly one issue of severity 1 when
\* s exceeds soft but not hard, and exactly one issue of the rule's severity when s
\* exceeds hard
C26_UIThresholds ==
    callDone /\ isUIMethod(callArgs.method) =>
        LET s == callArgs.method.stmtCount
        IN  /\ s <= SoftOf(callArgs) => callResult = <<>>
            /\ s > SoftOf(callArgs) /\ s <= HardOf(callArgs)
                  => OneIssueOfSeverity(callResult, 1)
            /\ s > HardOf(callArgs)
                  => OneIssueOfSeverity(callResult, RuleSeverityOf(callArgs))

\* C26 as the checker has it: the hard threshold is tested first, so no issue is added
\* only when s exceeds neither threshold
C26_UIThresholdsHardFirst ==
    callDone /\ isUIMethod(callArgs.method) =>
        LET s == callArgs.method.stmtCount
        IN  /\ s <= SoftOf(callArgs) /\ s <= HardOf(callArgs) => callResult = <<>>
            /\ s > SoftOf(callArgs) /\ s <= HardOf(callArgs)
                  => /\ OneIssueOfSeverity(callResult, 1)
                     /\ callResult[1].maxStmts = SoftOf(callArgs)
            /\ s > HardOf(callArgs)
                  => /\ OneIssueOfSeverity(callResult, RuleSeverityOf(callArgs))
                     /\ callResult[1].maxStmts = HardOf(callArgs)

\* a build method of a struct with 121 statements under the default thresholds: one
\* issue of severity 2
C26_Witness ==
    /\ callDone
    /\ callArgs.method.name = "build" /\ callArgs.method.isStruct
    /\ ~callArgs.method.hasBuilderDecorator /\ ~callArgs.method.hasViewTree
    /\ callArgs.soft.kind = "undefined" /\ callArgs.hard.kind = "undefined"
    /\ callArgs.alert.kind = "undefined"
    /\ callArgs.method.stmtCount = DEFAULT_MAX_UI_STMTS_HARD + 1
    /\ OneIssueOfSeverity(callResult, 2)

\* soft 4 and hard 3 with 4 statements: an issue although s <= soft
C26_HardBelowSoftReached ==
    /\ callDone /\ isUIMethod(callArgs.method)
    /\ SoftOf(callArgs) = 4 /\ HardOf(callArgs) = 3
    /\ callArgs.method.stmtCount = 4
    /\ Len(callResult) = 1

\* between the thresholds: one warning
C26_SoftReached ==
    /\ callDone /\ isUIMethod(callArgs.method)
    /\ callArgs.method.stmtCount > SoftOf(callArgs)
    /\ callArgs.method.stmtCount <= HardOf(callArgs)
    /\ callArgs.alert = Configured("number", 2)
    /\ OneIssueOfSeverity(callResult, 1)

(***************************************************************************)
(* The pipeline processFile, getClonePairs, merge on the tokens of two     *)
(* files                                                                   *)
(***************************************************************************)
MaxFileTokens == 3        \* most tokens of a.ets; b.ets has one less
MaxPipelineWindow == 2    \* largest window size of the pipeline

\* the token values a, b, | and ||
PipelineValues == {<<CharA>>, <<CharB>>, <<CharBar>>, <<CharBar, CharBar>>}

ValueSeqs(n) == UNION {[1..k -> PipelineValues] : k \in 0..n}

\* the tokens of a file with the given values, TokensPerLine on a line
PipelineTokens(values, file) ==
    [k \in 1..Len(values) |->
        createToken(values[k],
                    IF CharBar \in {values[k][i] : i \in 1..Len(values[k])}
                    THEN "OPERATOR" ELSE "IDENTIFIER",
                    1 + ((k - 1) \div TokensPerLine), (k - 1) % TokensPerLine, file)]

PipelineValuesOf(file) == IF file = "a.ets" THEN callArgs.a ELSE callArgs.b

InitPipeline ==
    /\ HashIdle /\ WinIdle /\ IndexIdle /\ MergeIdle
    /\ registered = "none"
    /\ rule = UnsetFragmentRule /\ FragmentConstructed
    /\ methodRule = UnsetMethodRule /\ MethodConstructed
    /\ callArgs \in [windowSize : 1..MaxPipelineWindow, a : ValueSeqs(MaxFileTokens),
                     b : ValueSeqs(MaxFileTokens - 1)]
    /\ callResult = [stage |-> "indexing", processed |-> {},
                     matcher |-> NewCloneMatcher(callArgs.windowSize),
                     pairs |-> <<>>, merged |-> <<>>]
    /\ callDone = FALSE

\* matcher.processFile(tokens, file), once for a file
PipelineProcessFile(file) ==
    /\ callResult.stage = "indexing"
    /\ file \notin callResult.processed
    /\ callResult' =
          [callResult EXCEPT
              !.processed = @ \cup {file},
              !.matcher = CloneMatcher_processFile(
                              @, PipelineTokens(PipelineValuesOf(file), file), file)]
    /\ UNCHANGED <<callArgs, callDone, hashVars, winVars, indexVars, mergeVars, registered,
                   fragVars, methodVars>>

\* matcher.getClonePairs() after both files
PipelineGetClonePairs ==
    /\ callResult.stage = "indexing"
    /\ callResult.processed = CheckedFiles
    /\ callResult' = [callResult EXCEPT
                         !.stage = "paired",
                         !.pairs = CloneMatcher_getClonePairs(callResult.matcher)]
    /\ UNCHANGED <<callArgs, callDone, hashVars, winVars, indexVars, mergeVars, registered,
                   fragVars, methodVars>>

\* new CloneMerger(windowSize).merge(pairs)
PipelineMerge ==
    /\ callResult.stage = "paired"
    /\ callResult' = [callResult EXCEPT
                         !.stage = "merged",
                         !.merged = CloneMerger_merge(NewCloneMerger(callArgs.windowSize),
                                                      callResult.pairs)]
    /\ callDone' = TRUE
    /\ UNCHANGED <<callArgs, hashVars, winVars, indexVars, mergeVars, registered,
                   fragVars, methodVars>>

NextPipeline ==
    \/ \E file \in CheckedFiles : PipelineProcessFile(file)
    \/ PipelineGetClonePairs
    \/ PipelineMerge

SpecPipeline == InitPipeline /\ [][NextPipeline]_vars

\* the range of the location lies inside the token sequence of its file
InsideFile(location) ==
    /\ 0 <= location.startIndex
    /\ location.startIndex <= location.endIndex
    /\ location.endIndex < Len(PipelineValuesOf(location.file))

\* the two ranges of the region have tokenCount tokens and hold equal values
EqualRanges(region) ==
    /\ region.location1.endIndex = region.location1.startIndex + region.tokenCount - 1
    /\ region.location2.endIndex = region.location2.startIndex + region.tokenCount - 1
    /\ \A k \in 1..region.tokenCount :
          PipelineValuesOf(region.location1.file)[region.location1.startIndex + k]
             = PipelineValuesOf(region.location2.file)[region.location2.startIndex + k]

\* C27: every MergedClone produced by the pipeline processFile, getClonePairs, merge
\* describes two token index ranges that lie inside their files' token sequences and
\* whose token values are equal position by position over all tokenCount tokens
C27_MergedRangesEqual ==
    callDone =>
        \A k \in 1..Len(callResult.merged) :
            /\ InsideFile(callResult.merged[k].location1)
            /\ InsideFile(callResult.merged[k].location2)
            /\ EqualRanges(callResult.merged[k])

HoldsBar(values) ==
    \E k \in 1..Len(values) : CharBar \in {values[k][i] : i \in 1..Len(values[k])}

\* what the pipeline does instead: the ranges are inside the files in every run, and
\* hold equal values in the runs whose token values are free of the separator '|'
C27_EqualWithoutSeparator ==
    callDone =>
        \A k \in 1..Len(callResult.merged) :
            /\ InsideFile(callResult.merged[k].location1)
            /\ InsideFile(callResult.merged[k].location2)
            /\ ~HoldsBar(callArgs.a) /\ ~HoldsBar(callArgs.b)
                  => EqualRanges(callResult.merged[k])

\* a.ets holds | || and b.ets holds || |: one region of two tokens that differ
C27_Witness ==
    /\ callDone
    /\ callArgs.windowSize = 2
    /\ callArgs.a = <<<<CharBar>>, <<CharBar, CharBar>>>>
    /\ callArgs.b = <<<<CharBar, CharBar>>, <<CharBar>>>>
    /\ Len(callResult.merged) = 1
    /\ callResult.merged[1].tokenCount = 2
    /\ callResult.merged[1].location1.file # callResult.merged[1].location2.file

\* a chain of two windows merged into one region of equal tokens
C27_ChainReached ==
    /\ callDone
    /\ ~HoldsBar(callArgs.a) /\ ~HoldsBar(callArgs.b)
    /\ \E k \in 1..Len(callResult.merged) :
          /\ callResult.merged[k].tokenCount = callArgs.windowSize + 1
          /\ EqualRanges(callResult.merged[k])

SameFile(region) == region.location1.file = region.location2.file

\* C28: for every clone pair and every merged region whose two locations are in the
\* same file, the two token index ranges are disjoint: the range of location1 ends
\* before the range of location2 starts
C28_SameFileRangesDisjoint ==
    /\ callResult.stage \in {"paired", "merged"} =>
          \A k \in 1..Len(callResult.pairs) :
              SameFile(callResult.pairs[k]) =>
                  callResult.pairs[k].location1.startIndex
                      + callResult.pairs[k].tokenCount - 1
                    < callResult.pairs[k].location2.startIndex
    /\ callDone =>
          \A k \in 1..Len(callResult.merged) :
              SameFile(callResult.merged[k]) =>
                  callResult.merged[k].location1.endIndex
                    < callResult.merged[k].location2.startIndex

\* what the pipeline does instead: in the same file location1 starts before
\* location2; the ranges may overlap
C28_SameFileOrdered ==
    /\ callResult.stage \in {"paired", "merged"} =>
          \A k \in 1..Len(callResult.pairs) :
              SameFile(callResult.pairs[k]) =>
                  callResult.pairs[k].location1.startIndex
                    < callResult.pairs[k].location2.startIndex
    /\ callDone =>
          \A k \in 1..Len(callResult.merged) :
              SameFile(callResult.merged[k]) =>
                  callResult.merged[k].location1.startIndex
                    < callResult.merged[k].location2.startIndex

\* a.ets holds a a a, window size 2: the region pairs tokens 0..1 with tokens 1..2
C28_Witness ==
    /\ callDone
    /\ callArgs.windowSize = 2
    /\ callArgs.a = <<<<CharA>>, <<CharA>>, <<CharA>>>>
    /\ callArgs.b = <<>>
    /\ Len(callResult.merged) = 1
    /\ callResult.merged[1].location1.startIndex = 0
    /\ callResult.merged[1].location1.endIndex = 1
    /\ callResult.merged[1].location2.startIndex = 1
    /\ callResult.merged[1].location2.endIndex = 2

(***************************************************************************)
(* The Tokenizer on the operators of the language, normalization disabled  *)
(***************************************************************************)
\* the operators of the inputs as [text, kind]: + += < << <<= & &= | |= ^ ^= ** **=
\* || ||= && &&= ?? ??= =, each a token the scanner yields for its text
OperatorLexemes ==
    {[text |-> <<43>>, kind |-> "PlusToken"],
     [text |-> <<43, 61>>, kind |-> "PlusEqualsToken"],
     [text |-> <<60>>, kind |-> "LessThanToken"],
     [text |-> <<60, 60>>, kind |-> "LessThanLessThanToken"],
     [text |-> <<60, 60, 61>>, kind |-> "LessThanLessThanEqualsToken"],
     [text |-> <<38>>, kind |-> "AmpersandToken"],
     [text |-> <<38, 61>>, kind |-> "AmpersandEqualsToken"],
     [text |-> <<CharBar>>, kind |-> "BarToken"],
     [text |-> <<CharBar, 61>>, kind |-> "BarEqualsToken"],
     [text |-> <<94>>, kind |-> "CaretToken"],
     [text |-> <<94, 61>>, kind |-> "CaretEqualsToken"],
     [text |-> <<42, 42>>, kind |-> "AsteriskAsteriskToken"],
     [text |-> <<42, 42, 61>>, kind |-> "AsteriskAsteriskEqualsToken"],
     [text |-> <<CharBar, CharBar>>, kind |-> "BarBarToken"],
     [text |-> <<CharBar, CharBar, 61>>, kind |-> "BarBarEqualsToken"],
     [text |-> <<38, 38>>, kind |-> "AmpersandAmpersandToken"],
     [text |-> <<38, 38, 61>>, kind |-> "AmpersandAmpersandEqualsToken"],
     [text |-> <<63, 63>>, kind |-> "QuestionQuestionToken"],
     [text |-> <<63, 63, 61>>, kind |-> "QuestionQuestionEqualsToken"],
     [text |-> <<61>>, kind |-> "EqualsToken"]}

\* what the scanner finds in  a OP b
OperatorSource(op) == SourceOf(<<Ident(<<CharA>>), op, Ident(<<CharB>>)>>)

\* the values of the tokens of new Tokenizer() on the source
PlainValuesOf(source) ==
    LET tokens == Tokenizer_tokenize(NewTokenizer(FALSE, FALSE), source, "a.ets")
    IN  [k \in 1..Len(tokens) |-> tokens[k].value]

LexemeTexts(source) == [k \in 1..Len(source.lexemes) |-> source.lexemes[k].text]

InitOperators ==
    /\ HashIdle /\ WinIdle /\ IndexIdle /\ MergeIdle
    /\ registered = "none"
    /\ rule = UnsetFragmentRule /\ FragmentConstructed
    /\ methodRule = UnsetMethodRule /\ MethodConstructed
    /\ callArgs \in [first : OperatorLexemes, second : OperatorLexemes]
    /\ callResult = <<>> /\ callDone = FALSE

\* tokenize on  a OP b  for the two operators
ApplyOperators ==
    /\ ~callDone
    /\ callDone' = TRUE
    /\ callResult' = [first  |-> PlainValuesOf(OperatorSource(callArgs.first)),
                      second |-> PlainValuesOf(OperatorSource(callArgs.second))]
    /\ UNCHANGED <<callArgs, hashVars, winVars, indexVars, mergeVars, registered,
                   fragVars, methodVars>>

NextOperators == ApplyOperators

SpecOperators == InitOperators /\ [][NextOperators]_vars

\* C29: with normalization disabled the Tokenizer emits one token for every lexical
\* token of the source, in source order and with the source text as its value; no
\* operator token is dropped, so two sources that differ in an operator never yield
\* the same token value sequence
C29_NoOperatorDropped ==
    callDone =>
        /\ callResult.first = LexemeTexts(OperatorSource(callArgs.first))
        /\ callArgs.first # callArgs.second => callResult.first # callResult.second

\* what the Tokenizer does instead: the operators that isOperatorKind lists are kept
\* with their text; every other operator is left out of the token sequence
C29_ListedOperatorsKept ==
    callDone =>
        IF isOperatorKind(callArgs.first.kind)
        THEN /\ callResult.first = LexemeTexts(OperatorSource(callArgs.first))
             /\ callArgs.first # callArgs.second => callResult.first # callResult.second
        ELSE callResult.first = <<<<CharA>>, <<CharB>>>>

\* a << b and a <<= b both give the tokens a, b
C29_Witness ==
    /\ callDone
    /\ callArgs.first.kind = "LessThanLessThanToken"
    /\ callArgs.second.kind = "LessThanLessThanEqualsToken"
    /\ callResult.first = <<<<CharA>>, <<CharB>>>>
    /\ callResult.second = callResult.first

\* a + b and a += b give different tokens
C29_KeptReached ==
    /\ callDone
    /\ callArgs.first.kind = "PlusToken" /\ callArgs.second.kind = "PlusEqualsToken"
    /\ callResult.first = <<<<CharA>>, <<43>>, <<CharB>>>>
    /\ callResult.second = <<<<CharA>>, <<43, 61>>, <<CharB>>>>

(***************************************************************************)
(* SwitchStatementCheck                                                    *)
(***************************************************************************)
MaxLabels == 6        \* most case/default labels of a switch block
MaxMethodLine == 3    \* last file line a method starts on

\* "switch", "case", "default"
StrSwitch  == <<115, 119, 105, 116, 99, 104>>
StrCase    == <<99, 97, 115, 101>>
StrDefault == <<100, 101, 102, 97, 117, 108, 116>>

\* /\bswitch\s*\(/.test(text)
containsSwitch(text) ==
    \E k \in 1..Len(text) :
        /\ HasAt(text, k, StrSwitch)
        /\ k = 1 \/ ~IsWord(text[k - 1])
        /\ LET e == RunEndSpace(text, k + Len(StrSwitch))
           IN  e + 1 <= Len(text) /\ text[e + 1] = 40

\* \bword\b at position k
WordAt(text, k, word) ==
    /\ HasAt(text, k, word)
    /\ k = 1 \/ ~IsWord(text[k - 1])
    /\ NonWordAt(text, k + Len(word))

\* text.match(/\bcase\b|\bdefault\b/g): the number of matches
countCases(text) ==
    Cardinality({k \in 1..Len(text) :
                    WordAt(text, k, StrCase) \/ WordAt(text, k, StrDefault)})

\* text.match(/\{/g)?.length ?? 0, and the same for any one character
CountChar(text, c) == Cardinality({k \in 1..Len(text) : text[k] = c})

BraceBalance(text) == CountChar(text, 123) - CountChar(text, 125)

\* the for loop of collectSwitchBlockText from statement i (1-based)
RECURSIVE CollectBlock(_, _, _, _, _)
CollectBlock(stmts, i, started, braceDepth, lines) ==
    IF i > Len(stmts) THEN lines
    ELSE LET text  == stmts[i].text
             depth == braceDepth + BraceBalance(text)
         IN  IF ~started THEN CollectBlock(stmts, i + 1, TRUE, depth, Append(lines, text))
             ELSE IF depth <= 0 THEN Append(lines, text)
             ELSE CollectBlock(stmts, i + 1, TRUE, depth, Append(lines, text))

collectSwitchBlockText(stmts, startIdx) ==
    Join(CollectBlock(stmts, startIdx, FALSE, 0, <<>>), <<10>>)

\* `${line}-${caseCount}`
buildSwitchKey(line, caseCount) == Decimal(line) \o <<CharMinus>> \o Decimal(caseCount)

\* SwitchStatementCheck.addIssueReport on [issues, reported]
Switch_addIssueReport(st, line, caseCount) ==
    [st EXCEPT !.issues = Append(@, [line |-> line, caseCount |-> caseCount])]

\* the for loop of check over the CFG statements from statement i (1-based)
RECURSIVE CfgLoop(_, _, _, _)
CfgLoop(stmts, i, threshold, st) ==
    IF i > Len(stmts) THEN st
    ELSE IF ~containsSwitch(stmts[i].text) THEN CfgLoop(stmts, i + 1, threshold, st)
    ELSE LET caseCount == countCases(collectSwitchBlockText(stmts, i))
         IN  IF caseCount >= threshold
             THEN CfgLoop(stmts, i + 1, threshold,
                          [Switch_addIssueReport(st, stmts[i].line, caseCount)
                              EXCEPT !.reported =
                                  @ \cup {buildSwitchKey(stmts[i].line, caseCount)}])
             ELSE CfgLoop(stmts, i + 1, threshold, st)

\* code.split(/\r?\n/): a line starts at the start of the code and after every \n, and
\* ends before the next \n, or before the \r in front of it
LineStarts(code) == {1} \cup {k + 1 : k \in {j \in 1..Len(code) : code[j] = 10}}

LineFrom(code, s) ==
    LET ends == {k \in s..Len(code) : code[k] = 10}
        stop == IF ends = {} THEN Len(code)
                ELSE (CHOOSE k \in ends : \A j \in ends : k <= j) - 1
    IN  IF ends # {} /\ stop >= s /\ code[stop] = 13 THEN SubSeq(code, s, stop - 1)
        ELSE SubSeq(code, s, stop)

SplitLines(code) ==
    LET starts == LineStarts(code)
    IN  [n \in 1..Cardinality(starts) |->
            LineFrom(code, CHOOSE s \in starts :
                               Cardinality({t \in starts : t < s}) = n - 1)]

\* flush of detectFromSource; startLine is the 0-based index of the switch line in
\* the lines of the method's code
flush(st, blockLines, startLine, threshold) ==
    IF Len(blockLines) = 0 THEN st
    ELSE LET caseCount == countCases(Join(blockLines, <<10>>))
             key       == buildSwitchKey(startLine + 1, caseCount)
         IN  IF caseCount >= threshold /\ key \notin st.reported
             THEN [Switch_addIssueReport(st, startLine + 1, caseCount)
                      EXCEPT !.reported = @ \cup {key}]
             ELSE st

\* the for loop of detectFromSource from line i (0-based), and the flush after it
RECURSIVE ScanLines(_, _, _, _, _, _, _, _)
ScanLines(lines, i, inSwitch, braceDepth, blockLines, startLine, threshold, st) ==
    IF i >= Len(lines)
    THEN IF inSwitch THEN flush(st, blockLines, startLine, threshold) ELSE st
    ELSE LET line == lines[i + 1]
         IN  IF ~inSwitch
             THEN IF ~containsSwitch(line)
                  THEN ScanLines(lines, i + 1, FALSE, braceDepth, blockLines, startLine,
                                 threshold, st)
                  ELSE ScanLines(lines, i + 1, BraceBalance(line) >= 0, BraceBalance(line),
                                 IF BraceBalance(line) >= 0 THEN <<line>> ELSE <<>>,
                                 i, threshold, st)
             ELSE IF braceDepth + BraceBalance(line) <= 0
             THEN ScanLines(lines, i + 1, FALSE, braceDepth + BraceBalance(line), <<>>,
                            startLine, threshold,
                            flush(st, Append(blockLines, line), startLine, threshold))
             ELSE ScanLines(lines, i + 1, TRUE, braceDepth + BraceBalance(line),
                            Append(blockLines, line), startLine, threshold, st)

detectFromSource(config, method, st) ==
    IF Len(method.code) = 0 THEN st
    ELSE ScanLines(SplitLines(method.code), 0, FALSE, 0, <<>>, 0,
                   getCaseThreshold(config), st)

\* SwitchStatementCheck.check on a checker with the issues found; its issues after
Switch_check(config, method, found) ==
    IF ~method.hasBody THEN found
    ELSE detectFromSource(config, method,
                          CfgLoop(method.stmts, 1, getCaseThreshold(config),
                                  [issues |-> found, reported |-> {}])).issues

\* the lines of  function f(x) { [let y = 0;] switch (x) { case 1: a(); ...
\* default: b(); } return y; }  with pre lines before the switch and n labels
SwitchCodeLines(pre, n) ==
    <<<<102, 117, 110, 99, 116, 105, 111, 110, 32, 102, 40, 120, 41, 32, 123>>>>
    \o [k \in 1..pre |-> <<108, 101, 116, 32, 121, 32, 61, 32, 48, 59>>]
    \o <<<<115, 119, 105, 116, 99, 104, 32, 40, 120, 41, 32, 123>>>>
    \o [k \in 1..(n - 1) |-> <<99, 97, 115, 101, 32, 49, 58, 32, 97, 40, 41, 59>>]
    \o <<<<100, 101, 102, 97, 117, 108, 116, 58, 32, 98, 40, 41, 59>>, <<125>>, <<114, 101, 116, 117, 114, 110, 32, 121, 59>>, <<125>>>>

SwitchBlockLines(pre, n) == SubSeq(SwitchCodeLines(pre, n), pre + 2, pre + n + 3)

\* how the CFG of the host shows the switch: not at all (flattened), as one statement
\* whose original text is the block, or as a statement that holds the header line
CfgShapes == {"flattened", "block", "header"}

\* the statements of the CFG; a statement's line is its line in the file
SwitchStmts(line, pre, n, shape) ==
    [k \in 1..pre |-> [text |-> <<121, 32, 61, 32, 48>>, line |-> line + k]]
    \o (IF shape = "block"
        THEN <<[text |-> Join(SwitchBlockLines(pre, n), <<10>>), line |-> line + pre + 1]>>
        ELSE IF shape = "header"
        THEN <<[text |-> <<115, 119, 105, 116, 99, 104, 32, 40, 120, 41, 32, 123>>, line |-> line + pre + 1]>>
        ELSE <<>>)
    \o <<[text |-> <<97, 40, 41>>, line |-> line + pre + 2],
         [text |-> <<98, 40, 41>>, line |-> line + pre + n + 1],
         [text |-> <<114, 101, 116, 117, 114, 110, 32, 121>>, line |-> line + pre + n + 3]>>

\* the method of one input, declared on the given line of its file
SwitchMethod(args) ==
    [hasBody |-> args.hasBody, line |-> args.line,
     code |-> Join(SwitchCodeLines(args.pre, args.labels), <<10>>),
     stmts |-> SwitchStmts(args.line, args.pre, args.labels, args.shape)]

SwitchConfig(args) ==
    [shape |-> "object",
     first |-> [key \in OptionKeys |->
                   IF key = "minCases" THEN args.minCases ELSE Configured("undefined", 0)]]

InitSwitch ==
    /\ HashIdle /\ WinIdle /\ IndexIdle /\ MergeIdle
    /\ registered = "none"
    /\ rule = UnsetFragmentRule /\ FragmentConstructed
    /\ methodRule = UnsetMethodRule /\ MethodConstructed
    /\ callArgs \in [hasBody : BOOLEAN, line : 1..MaxMethodLine, pre : 0..1,
                     labels : 1..MaxLabels, shape : CfgShapes,
                     minCases : {Configured("undefined", 0), Configured("number", 4),
                                 Configured("string", 0)}]
    /\ callResult = <<>> /\ callDone = FALSE

\* one check call on a checker whose issue list is empty
ApplySwitch ==
    /\ ~callDone
    /\ callDone' = TRUE
    /\ callResult' = Switch_check(SwitchConfig(callArgs), SwitchMethod(callArgs), <<>>)
    /\ UNCHANGED <<callArgs, hashVars, winVars, indexVars, mergeVars, registered,
                   fragVars, methodVars>>

NextSwitch == ApplySwitch

SpecSwitch == InitSwitch /\ [][NextSwitch]_vars

MinCasesOf(args) == IF args.minCases.kind = "number" THEN args.minCases.val ELSE MIN_CASES

\* C30: in one check call a switch block with at least minCases case/default labels
\* yields exactly one issue, also when the block is found both through the CFG
\* statement pass and through the source-text scan, wherever the method starts
C30_OneIssuePerSwitch ==
    callDone /\ callArgs.hasBody /\ callArgs.labels >= MinCasesOf(callArgs) =>
        Len(callResult) = 1

\* what the checker does instead: a block found by both passes is reported once when
\* the method is declared on line 1 of the file, and twice otherwise, on the line in
\* the file and on the line within the method; a smaller block is not reported
C30_OneIssueOnFirstLine ==
    callDone /\ callArgs.hasBody =>
        IF callArgs.labels < MinCasesOf(callArgs) THEN callResult = <<>>
        ELSE IF callArgs.shape = "block" /\ callArgs.line > 1
        THEN callResult = <<[line |-> callArgs.line + callArgs.pre + 1,
                             caseCount |-> callArgs.labels],
                            [line |-> callArgs.pre + 2, caseCount |-> callArgs.labels]>>
        ELSE callResult = <<[line |-> callArgs.pre + 2, caseCount |-> callArgs.labels]>>

\* a method declared on line 2 whose switch of 5 labels both passes find: two issues
C30_Witness ==
    /\ callDone /\ callArgs.hasBody
    /\ callArgs.line = 2 /\ callArgs.pre = 0 /\ callArgs.labels = MIN_CASES
    /\ callArgs.shape = "block" /\ callArgs.minCases.kind = "undefined"
    /\ Len(callResult) = 2
    /\ callResult[1].line = 3 /\ callResult[2].line = 2

\* the same method declared on line 1: one issue
C30_FirstLineReached ==
    /\ callDone /\ callArgs.hasBody
    /\ callArgs.line = 1 /\ callArgs.labels = MIN_CASES /\ callArgs.shape = "block"
    /\ Len(callResult) = 1

====
